---- MODULE Spec2Model ----
(***************************************************************************)
(* A model of appium-ios-tuntap: the TunnelManager of src/src/tunnel.ts    *)
(* (ingress demultiplexer, fanout, egress poller, stop), the TunTap handle *)
(* of src/src/logger.ts (the newest TunTap class, lines 439-888) and the   *)
(* native device flag of src/src/tuntap.cc.                                *)
(*                                                                         *)
(* JavaScript runs handlers to completion, so every action below is one    *)
(* whole handler (or the part of an async function between two awaits,     *)
(* together with the promise continuations that its completion triggers).  *)
(* Operations are written as operators from a world record (all objects'   *)
(* fields) to the world after the call, so that a handler can call them    *)
(* re-entrantly (a consumer callback that calls stop()).                   *)
(***************************************************************************)
EXTENDS Integers, Sequences, FiniteSets, TLC

VARIABLES
    mgr,      \* the TunnelManager's fields (tunnel.ts:86-93)
    tap,      \* the TunTap created by setupInterface and its native device
    sock,     \* the device connection (net.Socket) and its listeners
    proc,     \* process-wide state: registry of managers, timers, exit
    setup,    \* position of the asynchronous setupInterface call
    caller,   \* who drives the manager: connectToTunnelLockdown or the user
    streams,  \* the packet streams obtained from getPacketStream()
    wire,     \* the bytes the peer sends on the stream (an input)
    pos,      \* how many bytes of wire the socket has delivered
    obs,      \* observation logs (what reached the interface, callbacks, ...)
    ret,      \* outcome of the most recent API call
    hs,       \* the exchangeCoreTunnelParameters call and the peer's response
    fleet     \* the other TunnelManagers of the process, and its exit code

vars == <<mgr, tap, sock, proc, setup, caller, streams, wire, pos, obs, ret,
          hs, fleet>>

----------------------------------------------------------------------------
(* Bounds of the model.                                                    *)

\* How many TunnelManagers the process constructs at most
MaxManagers == 3

\* How many datagrams the peer sends at most.
MaxDatagrams == 2
\* How many times the poll timer fires at most.
MaxPollTicks == 2
\* How many explicit stop() calls the user makes at most.
MaxUserStops == 2

----------------------------------------------------------------------------
(* Program constants.                                                      *)

\* "Extract IPv6 header (fixed 40 bytes)"
HeaderLen == 40
\* TunTap.write: "Write data too large (max 65536 bytes)"
MaxWriteLen == 65536
\* const data = this.tun.read(16384)
PollReadSize == 16384
\* TunTap.read: "Read size must be between 1 and 65536 bytes"
MaxReadSize == 65536
\* next-header values of UDP and TCP
NextHeaderUDP == 17
NextHeaderTCP == 6
\* minimum lengths of the UDP and TCP headers
UdpHeaderLen == 8
TcpMinHeaderLen == 20

----------------------------------------------------------------------------
(* Buffers are sequences of bytes; offsets are 0-based as in the source.   *)

Null == 0

\* Buffer.slice(start, end): end is clamped to the length
Slice(buf, start, end) ==
    SubSeq(buf, start + 1, IF end > Len(buf) THEN Len(buf) ELSE end)

\* Buffer.readUInt16BE(off)
ReadUInt16BE(buf, off) == buf[off + 1] * 256 + buf[off + 2]

HexDigit(d) ==
    CASE d = 0 -> "0" [] d = 1 -> "1" [] d = 2 -> "2" [] d = 3 -> "3"
      [] d = 4 -> "4" [] d = 5 -> "5" [] d = 6 -> "6" [] d = 7 -> "7"
      [] d = 8 -> "8" [] d = 9 -> "9" [] d = 10 -> "a" [] d = 11 -> "b"
      [] d = 12 -> "c" [] d = 13 -> "d" [] d = 14 -> "e" [] OTHER -> "f"

\* Number.prototype.toString(16): lowercase, no leading zeros
RECURSIVE ToHex(_)
ToHex(n) == IF n < 16 THEN HexDigit(n) ELSE ToHex(n \div 16) \o HexDigit(n % 16)

RECURSIVE JoinColon(_)
JoinColon(parts) ==
    IF Len(parts) = 0 THEN ""
    ELSE IF Len(parts) = 1 THEN parts[1]
    ELSE parts[1] \o ":" \o JoinColon(Tail(parts))

formatIPv6Address(buf) ==
    IF Len(buf) # 16 THEN "invalid-address"
    ELSE JoinColon([i \in 1..8 |-> ToHex(ReadUInt16BE(buf, 2 * (i - 1)))])

\* A variant of the L4 parse that does not compare the TCP header length
\* with the length of the segment: C13 must not hold of it
PacketDataOfNoTcpLengthCheck(packet) ==
    LET src == formatIPv6Address(Slice(packet, 8, 24))
        dst == formatIPv6Address(Slice(packet, 24, 40))
        nextHeader == packet[7]
        payload == Slice(packet, HeaderLen, Len(packet))
    IN  IF nextHeader = NextHeaderUDP
        THEN IF Len(payload) < UdpHeaderLen THEN <<>>
             ELSE <<[protocol |-> "UDP", src |-> src, dst |-> dst,
                     sourcePort |-> ReadUInt16BE(payload, 0),
                     destPort |-> ReadUInt16BE(payload, 2),
                     payload |-> Slice(payload, UdpHeaderLen, Len(payload))]>>
        ELSE IF nextHeader = NextHeaderTCP
        THEN IF Len(packet) < HeaderLen + TcpMinHeaderLen THEN <<>>
             ELSE LET tcpHeaderLength == (packet[HeaderLen + 13] \div 16) * 4
                  IN  <<[protocol |-> "TCP", src |-> src, dst |-> dst,
                         sourcePort |-> ReadUInt16BE(packet, HeaderLen),
                         destPort |-> ReadUInt16BE(packet, HeaderLen + 2),
                         payload |-> Slice(packet, HeaderLen + tcpHeaderLength,
                                           Len(packet))]>>
        ELSE <<>>

\* The PacketData published for an extracted datagram: <<record>> or <<>>
PacketDataOf(packet) ==
    LET src == formatIPv6Address(Slice(packet, 8, 24))
        dst == formatIPv6Address(Slice(packet, 24, 40))
        nextHeader == packet[7]
        payload == Slice(packet, HeaderLen, Len(packet))
    IN  IF nextHeader = NextHeaderUDP
        THEN IF Len(payload) < UdpHeaderLen THEN <<>>
             ELSE <<[protocol |-> "UDP", src |-> src, dst |-> dst,
                     sourcePort |-> ReadUInt16BE(payload, 0),
                     destPort |-> ReadUInt16BE(payload, 2),
                     payload |-> Slice(payload, UdpHeaderLen, Len(payload))]>>
        ELSE IF nextHeader = NextHeaderTCP
        THEN IF Len(packet) < HeaderLen + TcpMinHeaderLen THEN <<>>
             ELSE LET tcpHeaderLength == (packet[HeaderLen + 13] \div 16) * 4
                  IN  IF Len(packet) < HeaderLen + tcpHeaderLength THEN <<>>
                      ELSE <<[protocol |-> "TCP", src |-> src, dst |-> dst,
                              sourcePort |-> ReadUInt16BE(packet, HeaderLen),
                              destPort |-> ReadUInt16BE(packet, HeaderLen + 2),
                              payload |-> Slice(packet, HeaderLen + tcpHeaderLength,
                                                Len(packet))]>>
        ELSE <<>>

----------------------------------------------------------------------------
(* The native device (tuntap.cc) and the TunTap handle (logger.ts).        *)
(* A handle is a record: isOpen and isClosed are TunTap's flags, devOpen   *)
(* is the native TunDevice's is_open, listeners tells whether the handle's *)
(* process exit/signal cleanup listeners are registered.  opened and       *)
(* closes record the handle's history: whether the OS device was ever      *)
(* opened for it and how many times the native close released it.          *)

\* new TunTap(): constructor
NewTunTap ==
    [created |-> TRUE, isOpen |-> FALSE, isClosed |-> FALSE,
     devOpen |-> FALSE, listeners |-> TRUE, opened |-> FALSE, closes |-> 0]

\* no TunTap constructed yet
NoTunTap ==
    [created |-> FALSE, isOpen |-> FALSE, isClosed |-> FALSE,
     devOpen |-> FALSE, listeners |-> FALSE, opened |-> FALSE, closes |-> 0]

\* TunDevice::Open: already open returns true; otherwise the OS decides
\* (nativeOk); a failure throws and leaves the device closed
NativeOpen(t, nativeOk) ==
    IF t.devOpen THEN [tap |-> t, threw |-> FALSE]
    ELSE IF nativeOk
    THEN [tap |-> [t EXCEPT !.devOpen = TRUE, !.opened = TRUE], threw |-> FALSE]
    ELSE [tap |-> t, threw |-> TRUE]

\* TunDevice::Close: closes the descriptor if open; nativeOk = FALSE stands
\* for a device whose close() throws
NativeClose(t, nativeOk) ==
    IF nativeOk
    THEN [tap |-> [t EXCEPT !.devOpen = FALSE,
                            !.closes = IF t.devOpen THEN @ + 1 ELSE @],
          threw |-> FALSE]
    ELSE [tap |-> t, threw |-> TRUE]

\* TunTap.open()
TunTapOpen(t, nativeOk) ==
    IF t.isClosed THEN [tap |-> t, res |-> "AlreadyClosed", reached |-> FALSE]
    ELSE IF ~t.isOpen
    THEN LET n == NativeOpen(t, nativeOk)
         IN  IF n.threw THEN [tap |-> n.tap, res |-> "DeviceError", reached |-> TRUE]
             ELSE [tap |-> [n.tap EXCEPT !.isOpen = TRUE], res |-> "ok",
                   reached |-> TRUE]
    ELSE [tap |-> t, res |-> "ok", reached |-> FALSE]

\* TunTap.close()
TunTapClose(t, nativeOk) ==
    IF ~t.isClosed
    THEN IF t.isOpen
         THEN LET n == NativeClose(t, nativeOk)
              IN  IF n.threw
                  THEN [tap |-> n.tap, res |-> "CloseFailed", reached |-> TRUE]
                  ELSE [tap |-> [n.tap EXCEPT !.isOpen = FALSE, !.isClosed = TRUE,
                                              !.listeners = FALSE],
                        res |-> "ok", reached |-> TRUE]
         ELSE [tap |-> [t EXCEPT !.isClosed = TRUE, !.listeners = FALSE],
               res |-> "ok", reached |-> FALSE]
    ELSE [tap |-> t, res |-> "ok", reached |-> FALSE]

\* A variant of the guard that only looks at isClosed: C7 must not hold of
\* it
TunTapGuardClosedOnly(t) ==
    IF t.isClosed THEN "AlreadyClosed" ELSE "ok"

\* The guard that opens read, write, configure and addRoute
TunTapGuard(t) ==
    IF ~t.isOpen THEN "NotOpen"
    ELSE IF t.isClosed THEN "AlreadyClosed"
    ELSE "ok"

\* TunTap.read(maxSize): reached tells whether device.read was called; the
\* native read throws when the device is not open
TunTapRead(t, maxSize) ==
    IF TunTapGuard(t) # "ok" THEN [res |-> TunTapGuard(t), reached |-> FALSE]
    ELSE IF maxSize <= 0 \/ maxSize > MaxReadSize
    THEN [res |-> "RangeError", reached |-> FALSE]
    ELSE IF ~t.devOpen THEN [res |-> "ReadFailed", reached |-> TRUE]
    ELSE [res |-> "ok", reached |-> TRUE]

\* TunTap.write(data): an empty buffer returns 0 without a native call
TunTapWrite(t, data) ==
    IF TunTapGuard(t) # "ok" THEN [res |-> TunTapGuard(t), reached |-> FALSE]
    ELSE IF Len(data) = 0 THEN [res |-> "ok", reached |-> FALSE]
    ELSE IF Len(data) > MaxWriteLen THEN [res |-> "RangeError", reached |-> FALSE]
    ELSE IF ~t.devOpen THEN [res |-> "WriteFailed", reached |-> TRUE]
    ELSE [res |-> "ok", reached |-> TRUE]

----------------------------------------------------------------------------
(* TunnelManager operations on the world record                            *)
(*   w = [mgr, tap, sock, proc, streams, obs].                             *)

World == [mgr |-> mgr, tap |-> tap, sock |-> sock, proc |-> proc,
          streams |-> streams, obs |-> obs]

Commit(w) ==
    /\ mgr' = w.mgr
    /\ tap' = w.tap
    /\ sock' = w.sock
    /\ proc' = w.proc
    /\ streams' = w.streams
    /\ obs' = w.obs

Contains(seq, x) == \E i \in 1..Len(seq) : seq[i] = x

Without(seq, x) == SelectSeq(seq, LAMBDA y : y # x)

\* Set.prototype.add keeps insertion order and ignores a present element
\* (the log keeps how many datagrams had been forwarded when c was added)
addPacketConsumer(w, c) ==
    IF Contains(w.mgr.packetConsumers, c) THEN w
    ELSE [w EXCEPT !.mgr.packetConsumers = Append(@, c),
                   !.obs.subscribedAt[c] = Len(w.obs.ingressWrites)]

removePacketConsumer(w, c) ==
    [w EXCEPT !.mgr.packetConsumers = Without(@, c)]

\* socket.destroy(): the socket is destroyed and its 'close' event is
\* scheduled (once)
SocketDestroy(s) ==
    [s EXCEPT !.destroyed = TRUE,
              !.closePending = ~s.closeEmitted]

\* A variant of _performStop that leaves the consumer set as it is: C3
\* must not hold of it
PerformStopKeepConsumers(w) ==
    LET w1 == [w EXCEPT !.mgr.cancelled = TRUE,
                        !.obs.cleanupRuns = @ + 1]
        w2 == IF w1.mgr.readInterval # Null
              THEN [w1 EXCEPT !.proc.timerActive = FALSE,
                              !.mgr.readInterval = Null]
              ELSE w1
        w3 == IF w2.mgr.deviceConn # Null /\ ~w2.sock.destroyed
              THEN [w2 EXCEPT !.sock = SocketDestroy(@),
                              !.mgr.deviceConn = Null]
              ELSE w2
        w4 == [w3 EXCEPT !.mgr.buffer = <<>>]
        w5 == IF w4.mgr.tun # Null
              THEN [w4 EXCEPT !.tap = TunTapClose(@, TRUE).tap,
                              !.mgr.tun = Null]
              ELSE w4
    IN  [w5 EXCEPT !.proc.activeTunnelManagers = @ \ {1}]

\* A variant of _performStop that leaves the poll timer running: C19 must
\* not hold of it
PerformStopKeepTimer(w) ==
    LET w1 == [w EXCEPT !.mgr.cancelled = TRUE,
                        !.obs.cleanupRuns = @ + 1]
        w3 == IF w1.mgr.deviceConn # Null /\ ~w1.sock.destroyed
              THEN [w1 EXCEPT !.sock = SocketDestroy(@),
                              !.mgr.deviceConn = Null]
              ELSE w1
        w4 == [w3 EXCEPT !.mgr.buffer = <<>>,
                         !.mgr.packetConsumers = <<>>]
        w5 == IF w4.mgr.tun # Null
              THEN [w4 EXCEPT !.tap = TunTapClose(@, TRUE).tap,
                              !.mgr.tun = Null]
              ELSE w4
    IN  [w5 EXCEPT !.proc.activeTunnelManagers = @ \ {1}]

\* TunnelManager._performStop
PerformStop(w) ==
    LET w1 == [w EXCEPT !.mgr.cancelled = TRUE,
                        !.obs.cleanupRuns = @ + 1]
        w2 == IF w1.mgr.readInterval # Null
              THEN [w1 EXCEPT !.proc.timerActive = FALSE,
                              !.mgr.readInterval = Null]
              ELSE w1
        w3 == IF w2.mgr.deviceConn # Null /\ ~w2.sock.destroyed
              THEN [w2 EXCEPT !.sock = SocketDestroy(@),
                              !.mgr.deviceConn = Null]
              ELSE w2
        w4 == [w3 EXCEPT !.mgr.buffer = <<>>,
                         !.mgr.packetConsumers = <<>>]
        w5 == IF w4.mgr.tun # Null
              THEN [w4 EXCEPT !.tap = TunTapClose(@, TRUE).tap,
                              !.mgr.tun = Null]
              ELSE w4
    IN  [w5 EXCEPT !.proc.activeTunnelManagers = @ \ {1}]

\* A variant of stop that ignores the cached completion: C2 must not hold
\* of it
StopNoCache(w) ==
    LET w1 == PerformStop(w)
        p == w1.obs.cleanupRuns
    IN  [w1 EXCEPT !.mgr.cleanupPromise = p,
                   !.obs.stopReturns = @ \cup {p}]

\* TunnelManager.stop: the cached completion is returned when there is one.
\* A completion is named by the number of the cleanup run that made it.
Stop(w) ==
    IF w.mgr.cleanupPromise # Null
    THEN [w EXCEPT !.obs.stopReturns = @ \cup {w.mgr.cleanupPromise}]
    ELSE LET w1 == PerformStop(w)
             p == w1.obs.cleanupRuns
         IN  [w1 EXCEPT !.mgr.cleanupPromise = p,
                        !.obs.stopReturns = @ \cup {p}]

\* The consumers that can subscribe: "p" only records the packet, "q" calls
\* stop() from inside its onPacket, "s" is the private consumer of the
\* packet stream, "t" records the packet and then throws.
PushConsumers == {"p", "q"}
StreamConsumer == "s"
ThrowingConsumer == "t"
AllConsumers == PushConsumers \cup {StreamConsumer, ThrowingConsumer}

\* Whether onPacket of consumer c ends by throwing
Throws(c) == c = ThrowingConsumer

\* A variant of the stream's consumer that drops the packet when no pull is
\* waiting for it: C11 must not hold of it
OnPacketDropWhenLagging(w, c, packetData) ==
    LET w1 == [w EXCEPT !.obs.delivered =
                            Append(@, <<c, packetData, w.mgr.cancelled>>),
                        !.obs.refs = Append(@, Len(w.proc.heap))]
    IN  IF c = "q" THEN Stop(w1)
        ELSE IF c = StreamConsumer /\ w1.streams.resolver
        THEN [w1 EXCEPT !.streams.resolver = FALSE,
                        !.streams.status = "yielded",
                        !.streams.received = Append(@, packetData)]
        ELSE w1

\* consumer.onPacket(packetData) for consumer c, as called by the fanout; the
\* log keeps whether stop() had been invoked when the callback was called,
\* and which payload Buffer the record the consumer now holds refers to
OnPacket(w, c, packetData) ==
    LET w1 == [w EXCEPT !.obs.delivered =
                            Append(@, <<c, packetData, w.mgr.cancelled>>),
                        !.obs.refs = Append(@, Len(w.proc.heap))]
    IN  IF c = "q" THEN Stop(w1)
        ELSE IF c = StreamConsumer
        THEN IF w1.streams.resolver
             \* resolver({value, done: false}); resolver = null: the pending
             \* pull completes with the packet
             THEN [w1 EXCEPT !.streams.resolver = FALSE,
                             !.streams.status = "yielded",
                             !.streams.received = Append(@, packetData)]
             ELSE [w1 EXCEPT !.streams.queue = Append(@, packetData)]
        ELSE w1

\* A variant of the fanout without the try/catch around each callback: the
\* exception of a consumer leaves forEach (and is caught by processBuffer
\* around the whole packet). C12 must not hold of it
RECURSIVE FanoutNoCatch(_, _, _)
FanoutNoCatch(w, packetData, i) ==
    IF i > Len(w.mgr.packetConsumers) THEN w
    ELSE LET c == w.mgr.packetConsumers[i]
             w1 == OnPacket(w, c, packetData)
         IN  IF Throws(c) THEN w1
             ELSE FanoutNoCatch(w1, packetData, i + 1)

\* this.packetConsumers.forEach(...): Set iteration is live, so consumers
\* removed before they are visited are not visited; i is the next position.
\* Each callback runs in its own try/catch, which logs the exception.
RECURSIVE Fanout(_, _, _)
Fanout(w, packetData, i) ==
    IF i > Len(w.mgr.packetConsumers) THEN w
    ELSE LET c == w.mgr.packetConsumers[i]
             w1 == OnPacket(w, c, packetData)
             w2 == IF Throws(c)
                   THEN [w1 EXCEPT !.obs.consumerErrors = @ + 1]
                   ELSE w1
         IN  Fanout(w2, packetData, i + 1)

\* A variant of the loop's body that stops the tunnel when the write
\* throws: C27 must not hold of it
WritePacketStopOnError(w, packet) ==
    LET r == TunTapWrite(w.tap, packet)
        w1 == IF r.res = "ok" /\ r.reached
              THEN [w EXCEPT !.obs.ingressWrites = Append(@, packet),
                             !.obs.lateIO = IF w.mgr.cancelled THEN @ + 1 ELSE @]
              ELSE w
        pd == PacketDataOf(packet)
    IN  IF r.res # "ok" THEN Stop([w1 EXCEPT !.obs.writeErrors = @ + 1])
        ELSE IF pd = <<>> THEN w1
        ELSE Fanout([w1 EXCEPT !.proc.heap = Append(@, pd[1].payload)],
                    pd[1], 1)

\* The body of processBuffer's loop for one complete packet: the write to
\* the interface, then the publication (skipped when the write throws).
\* One PacketData object is built for the packet and that object is handed
\* to every consumer; its payload is a Buffer made by slice(), a view of
\* the bytes of this packet in the memory of this.buffer.  The heap keeps
\* the bytes of each such payload Buffer: they lie in the part of the
\* memory that processBuffer has consumed, which this.buffer (re-sliced
\* from the offset reached, and copied by the next Buffer.concat) no longer
\* covers and the forwarder never reads again.
WritePacket(w, packet) ==
    LET r == TunTapWrite(w.tap, packet)
        w1 == IF r.res = "ok" /\ r.reached
              THEN [w EXCEPT !.obs.ingressWrites = Append(@, packet),
                             !.obs.lateIO = IF w.mgr.cancelled THEN @ + 1 ELSE @]
              ELSE w
        pd == PacketDataOf(packet)
    \* catch (err): log.error('Error writing to TUN: ...')
    IN  IF r.res # "ok" THEN [w1 EXCEPT !.obs.writeErrors = @ + 1]
        ELSE IF pd = <<>> THEN w1
        ELSE Fanout([w1 EXCEPT !.proc.heap = Append(@, pd[1].payload)],
                    pd[1], 1)

\* A variant of the loop that skips two bytes where the version is not 6:
\* C30 must not hold of it
RECURSIVE ProcessLoopSkipTwo(_, _)
ProcessLoopSkipTwo(w, offset) ==
    LET buf == w.mgr.buffer
    IN  IF ~(offset + HeaderLen <= Len(buf)) THEN [w |-> w, offset |-> offset]
        ELSE LET version == (buf[offset + 1] \div 16) % 16
                 payloadLength == ReadUInt16BE(buf, offset + 4)
             IN  IF version # 6 THEN ProcessLoopSkipTwo(w, offset + 2)
                 ELSE IF offset + HeaderLen + payloadLength > Len(buf)
                 THEN [w |-> w, offset |-> offset]
                 ELSE IF w.mgr.tun = Null THEN [w |-> w, offset |-> offset]
                 ELSE ProcessLoopSkipTwo(
                          WritePacket(w, Slice(buf, offset,
                                               offset + HeaderLen + payloadLength)),
                          offset + HeaderLen + payloadLength)

\* The while loop of TunnelManager.processBuffer from offset on; the result
\* is the world and the offset reached
RECURSIVE ProcessLoop(_, _)
ProcessLoop(w, offset) ==
    LET buf == w.mgr.buffer
    IN  IF ~(offset + HeaderLen <= Len(buf)) THEN [w |-> w, offset |-> offset]
        ELSE LET version == (buf[offset + 1] \div 16) % 16
                 payloadLength == ReadUInt16BE(buf, offset + 4)
             IN  IF version # 6 THEN ProcessLoop(w, offset + 1)
                 ELSE IF offset + HeaderLen + payloadLength > Len(buf)
                 THEN [w |-> w, offset |-> offset]
                 ELSE IF w.mgr.tun = Null THEN [w |-> w, offset |-> offset]
                 ELSE ProcessLoop(
                          WritePacket(w, Slice(buf, offset,
                                               offset + HeaderLen + payloadLength)),
                          offset + HeaderLen + payloadLength)

\* A variant of processBuffer that keeps the consumed bytes in the buffer:
\* C1 must not hold of it
processBufferNoTrim(w) == ProcessLoop(w, 0).w

\* TunnelManager.processBuffer
processBuffer(w) ==
    LET r == ProcessLoop(w, 0)
    IN  IF r.offset > 0
        THEN [r.w EXCEPT !.mgr.buffer = Slice(@, r.offset, Len(@))]
        ELSE r.w

\* deviceConn.on('data', ...)
DataHandler(w, data) ==
    IF w.mgr.cancelled THEN w
    ELSE processBuffer([w EXCEPT !.mgr.buffer = @ \o data])

\* A variant of the poller's callback that does not look at the
\* cancellation flag: C4 must not hold of it
PollHandlerNoCancelCheck(w, data) ==
    IF w.mgr.tun = Null THEN w
    ELSE LET r == TunTapRead(w.tap, PollReadSize)
             w1 == IF r.reached
                   THEN [w EXCEPT !.obs.tunReads = @ + 1,
                                  !.obs.lateIO = IF w.mgr.cancelled THEN @ + 1 ELSE @]
                   ELSE w
             w2 == IF Len(data) > 0
                   THEN [w1 EXCEPT !.obs.tunPackets =
                            Append(@, [data |-> data,
                                       destroyed |-> w1.sock.destroyed])]
                   ELSE w1
         IN  IF r.res # "ok" THEN w1
             ELSE IF Len(data) > 0 /\ ~w2.sock.destroyed
             THEN [w2 EXCEPT !.obs.connWrites = Append(@, data)]
             ELSE w2

\* A variant of the poller's callback that does not forward packets shorter
\* than an IPv6 header: C28 must not hold of it
PollHandlerDropShort(w, data) ==
    IF w.mgr.cancelled \/ w.mgr.tun = Null THEN w
    ELSE LET r == TunTapRead(w.tap, PollReadSize)
             w1 == IF r.reached
                   THEN [w EXCEPT !.obs.tunReads = @ + 1,
                                  !.obs.lateIO = IF w.mgr.cancelled THEN @ + 1 ELSE @]
                   ELSE w
             w2 == IF Len(data) > 0
                   THEN [w1 EXCEPT !.obs.tunPackets =
                            Append(@, [data |-> data,
                                       destroyed |-> w1.sock.destroyed])]
                   ELSE w1
         IN  IF r.res # "ok" THEN w1
             ELSE IF Len(data) >= HeaderLen /\ ~w2.sock.destroyed
             THEN [w2 EXCEPT !.obs.connWrites = Append(@, data)]
             ELSE w2

\* The setInterval callback of startTunReadLoop; data is what the native
\* read returns (<<>> when no packet is waiting)
PollHandler(w, data) ==
    IF w.mgr.cancelled \/ w.mgr.tun = Null THEN w
    ELSE LET r == TunTapRead(w.tap, PollReadSize)
             w1 == IF r.reached
                   THEN [w EXCEPT !.obs.tunReads = @ + 1,
                                  !.obs.lateIO = IF w.mgr.cancelled THEN @ + 1 ELSE @]
                   ELSE w
             w2 == IF Len(data) > 0
                   THEN [w1 EXCEPT !.obs.tunPackets =
                            Append(@, [data |-> data,
                                       destroyed |-> w1.sock.destroyed])]
                   ELSE w1
         IN  IF r.res # "ok" THEN w1
             ELSE IF Len(data) > 0 /\ ~w2.sock.destroyed
             THEN [w2 EXCEPT !.obs.connWrites = Append(@, data)]
             ELSE w2

\* A variant of the 'close' listener that does not call stop(): C6 must not
\* hold of it
CloseHandlerNoStop(w) == w

\* deviceConn.on('close', ...)
CloseHandler(w) == Stop(w)

\* deviceConn.on('error', ...): the error is logged
ErrorHandler(w) == w

\* net.Socket.end(): a graceful end of the writable side
SocketEnd(s) == [s EXCEPT !.ended = TRUE]

\* TunnelManager.startForwarding(deviceConn)
startForwarding(w) ==
    IF w.mgr.tun = Null THEN w
    ELSE [w EXCEPT !.mgr.deviceConn = 1,
                   !.sock.dataListener = TRUE,
                   !.mgr.readInterval = 1,
                   !.proc.timerActive = TRUE,
                   !.sock.closeListener = TRUE]

\* One resumption of the async generator getPacketStream (a pull): from its
\* start or from its last yield up to the next yield, await or return
StreamNext(w) ==
    LET w1 == IF w.streams.status = "created"
              THEN addPacketConsumer(w, StreamConsumer)
              ELSE w
    IN  IF w1.mgr.cancelled
        THEN [removePacketConsumer(w1, StreamConsumer)
                  EXCEPT !.streams.status = "done"]
        ELSE IF Len(w1.streams.queue) > 0
        THEN [w1 EXCEPT !.streams.status = "yielded",
                        !.streams.received = Append(@, w1.streams.queue[1]),
                        !.streams.queue = Tail(@)]
        ELSE [w1 EXCEPT !.streams.status = "awaiting",
                        !.streams.resolver = TRUE]

----------------------------------------------------------------------------
(* TunTap.configure / TunTap.addRoute on Linux, and setupInterface.        *)
(* Each execPromise is issued by one step and completes in a later one;    *)
(* the outcome of a command is "ok", "exists" (File exists), "denied"      *)
(* (Permission denied) or "error".  The position pc of a call names the    *)
(* command it awaits: "which" (which ip), "addr" (ip -6 addr add), "link"  *)
(* (ip link set ... up mtu), "route" (ip -6 route add).                    *)

ExecOutcomes == {"ok", "exists", "denied", "error"}

\* A TunnelInfo is a record [hasClientParameters, address, mtu,
\* serverAddress]: whether the object has a clientParameters member, and
\* the values of clientParameters.address, clientParameters.mtu and
\* serverAddress.  A member that is missing has the value undefined: the
\* text "undefined" where a string is built from it, Absent for the mtu.
Absent == -1

\* The scenario's TunnelInfo
ValidTunnelInfo ==
    [hasClientParameters |-> TRUE, address |-> "fd00::2", mtu |-> 1500,
     serverAddress |-> "fd00::1"]

\* The handshake's TunnelInfo values the model draws from
TunnelInfos ==
    { ValidTunnelInfo,
      [ValidTunnelInfo EXCEPT !.address = "not-an-ip"],
      [ValidTunnelInfo EXCEPT !.mtu = 100] }

\* setupInterface has not been given a TunnelInfo yet
NoTunnelInfo ==
    [hasClientParameters |-> FALSE, address |-> "", mtu |-> 0, serverAddress |-> ""]

\* An address text split at its colons, each piece named by its class:
\*   ""      the empty piece (next to a leading, trailing or double colon)
\*   "h"     1 to 4 hex digits       "fe80", "ffff"   those very digits
\*   "0"     1 to 4 zeros            "h5"     5 or more hex digits
\*   "v4"    a dotted quad           "%z"     '%' and a zone name
\*   "h%z"   1 to 4 hex digits, '%' and a zone name
\*   "x"     anything else
AddressPieces(address) ==
    CASE address \in {"fd00::1", "fd00::2", "fd00::3"} -> <<"h", "", "h">>
      [] address = "" -> <<"">>
      [] address = "::" -> <<"", "", "">>
      [] address = "::1" -> <<"", "", "h">>
      [] address = "fd00::" -> <<"h", "", "">>
      [] address = "1:2:3:4:5:6:7:8" -> <<"h", "h", "h", "h", "h", "h", "h", "h">>
      [] address = "1:2:3:4:5:6:7" -> <<"h", "h", "h", "h", "h", "h", "h">>
      [] address = "1:2:3:4:5:6:7:8:9" -> <<"h", "h", "h", "h", "h", "h", "h", "h", "h">>
      [] address = "1::2::3" -> <<"h", "", "h", "", "h">>
      [] address = "12345::1" -> <<"h5", "", "h">>
      [] address = "fe80::1%eth0" -> <<"fe80", "", "h%z">>
      [] address = "fe80::%eth0" -> <<"fe80", "", "%z">>
      [] address = "fe80:%eth0" -> <<"fe80", "%z">>
      [] address = "fe80::::%eth0" -> <<"fe80", "", "", "", "%z">>
      [] address = "::ffff:1.2.3.4" -> <<"", "", "ffff", "v4">>
      [] address = "::ffff:0:1.2.3.4" -> <<"", "", "ffff", "0", "v4">>
      [] address = "fd00::1.2.3.4" -> <<"h", "", "v4">>
      [] address = "1.2.3.4" -> <<"v4">>
      [] address = "fd00::2/64" -> <<"h", "", "x">>
      [] OTHER -> <<"x">>

\* [0-9a-fA-F]{1,4} and [0-9a-fA-F]{0,4}[%][0-9a-zA-Z]{1,} on a piece
IsHexGroup(piece) == piece \in {"h", "fe80", "ffff", "0"}
IsZoned(piece) == piece \in {"%z", "h%z"}

\* pieces[from..to] are all hex groups
AllHex(pieces, from, to) == \A i \in from..to : IsHexGroup(pieces[i])

\* ([0-9a-fA-F]{1,4}:){1,kmax}(:[0-9a-fA-F]{1,4}){1,jmax}: k hex groups,
\* the empty piece of the double colon, j hex groups
HeadGapTail(pieces, kmax, jmax) ==
    \E k \in 1..kmax, j \in 1..jmax :
        /\ Len(pieces) = k + 1 + j
        /\ AllHex(pieces, 1, k)
        /\ pieces[k + 1] = ""
        /\ AllHex(pieces, k + 2, k + 1 + j)

\* ipv6Regex.test(address): the twelve alternatives of the pattern, in its
\* order
RegexTest(pieces) ==
    LET n == Len(pieces)
    IN  \/ n = 8 /\ AllHex(pieces, 1, 8)
        \/ \E k \in 1..7 : /\ n = k + 2
                            /\ AllHex(pieces, 1, k)
                            /\ pieces[k + 1] = "" /\ pieces[k + 2] = ""
        \/ HeadGapTail(pieces, 6, 1)
        \/ HeadGapTail(pieces, 5, 2)
        \/ HeadGapTail(pieces, 4, 3)
        \/ HeadGapTail(pieces, 3, 4)
        \/ HeadGapTail(pieces, 2, 5)
        \/ HeadGapTail(pieces, 1, 6)
        \/ /\ n >= 3 /\ pieces[1] = "" /\ pieces[2] = ""
           /\ \/ \E j \in 1..7 : n = 2 + j /\ AllHex(pieces, 3, n)
              \/ n = 3 /\ pieces[3] = ""
        \* fe80:(:[0-9a-fA-F]{0,4}){0,4}%zone: no, or up to four, ':' + group
        \/ /\ n >= 2 /\ pieces[1] = "fe80" /\ IsZoned(pieces[n])
           /\ \/ n = 2 /\ pieces[2] = "%z"
              \/ /\ n \in 3..6 /\ pieces[2] = ""
                 /\ \A i \in 3..(n - 1) : pieces[i] = "" \/ IsHexGroup(pieces[i])
        \/ /\ n \in 3..5 /\ pieces[1] = "" /\ pieces[2] = "" /\ pieces[n] = "v4"
           /\ n >= 4 => pieces[3] = "ffff"
           /\ n = 5 => pieces[4] = "0"
        \/ \E k \in 1..4 : /\ n = k + 2
                            /\ AllHex(pieces, 1, k)
                            /\ pieces[k + 1] = "" /\ pieces[k + 2] = "v4"

\* ipv6Regex.test(address)
IsIPv6(address) == RegexTest(AddressPieces(address))

MinMtu == 1280
MaxMtu == 65535

\* The default of configure's mtu parameter
DefaultMtu == 1500

\* The synchronous part of TunTap.configure: the guard, the validation and
\* the first command ("which ip"); res = "pending" when a command is issued
\* (a default parameter takes its default when the argument is undefined)
ConfigureCall(t, address, mtu) ==
    LET m == IF mtu = Absent THEN DefaultMtu ELSE mtu
    IN  IF TunTapGuard(t) # "ok" THEN TunTapGuard(t)
        ELSE IF ~IsIPv6(address) THEN "TypeError"
        ELSE IF m < MinMtu \/ m > MaxMtu THEN "RangeError"
        ELSE "pending"

\* The synchronous part of TunTap.addRoute
AddRouteCall(t, destination) ==
    IF TunTapGuard(t) # "ok" THEN TunTapGuard(t)
    ELSE IF destination = "" THEN "TypeError"
    ELSE "pending"

\* What configure does when the command it awaits completes: the next
\* command it issues, or how it settles
ConfigureStep(pc, outcome) ==
    CASE pc = "which" -> IF outcome = "ok" THEN "addr" ELSE "rejected"
      [] pc = "addr"  -> IF outcome = "ok" THEN "link"
                         ELSE IF outcome = "exists" THEN "resolved"
                         ELSE "rejected"
      [] pc = "link"  -> IF outcome \in {"ok", "exists"} THEN "resolved"
                         ELSE "rejected"

\* What addRoute does when its command completes
AddRouteStep(outcome) ==
    IF outcome \in {"ok", "exists"} THEN "resolved" ELSE "rejected"

\* A variant of setupInterface's catch block that forgets to close the
\* handle: C8 must not hold of it
SetupCatchNoClose(w) ==
    IF w.mgr.tun # Null THEN [w EXCEPT !.mgr.tun = Null] ELSE w

\* The catch block of setupInterface
SetupCatch(w) ==
    IF w.mgr.tun # Null
    THEN [w EXCEPT !.tap = TunTapClose(@, TRUE).tap, !.mgr.tun = Null]
    ELSE w

\* setupInterface after configure has resolved: this.tun.addRoute(...)
SetupAddRoute(w, info) ==
    IF w.mgr.tun = Null THEN [w |-> SetupCatch(w), pc |-> "rejected"]
    ELSE IF AddRouteCall(w.tap, info.serverAddress \o "/128") # "pending"
    THEN [w |-> SetupCatch(w), pc |-> "rejected"]
    ELSE [w |-> w, pc |-> "route"]

\* setupInterface up to its first await: new TunTap(), open(), and the
\* synchronous part of configure
SetupInterfaceCall(w, info, nativeOk) ==
    LET o == TunTapOpen(NewTunTap, nativeOk)
        w1 == [w EXCEPT !.mgr.tun = 1, !.tap = o.tap]
    IN  IF o.res # "ok" THEN [w |-> SetupCatch(w1), pc |-> "rejected"]
        \* tunnelInfo.clientParameters.address throws when the member is missing
        ELSE IF ~info.hasClientParameters
        THEN [w |-> SetupCatch(w1), pc |-> "rejected"]
        ELSE IF ConfigureCall(w1.tap, info.address, info.mtu) # "pending"
        THEN [w |-> SetupCatch(w1), pc |-> "rejected"]
        ELSE [w |-> w1, pc |-> "which"]

\* setupInterface when the command it awaits completes with outcome
SetupInterfaceStep(w, pc, info, outcome) ==
    IF pc = "route"
    \* after addRoute resolves, this.tun.name throws when stop() has nulled tun
    THEN IF AddRouteStep(outcome) = "resolved" /\ w.mgr.tun # Null
         THEN [w |-> w, pc |-> "resolved"]
         ELSE [w |-> SetupCatch(w), pc |-> "rejected"]
    ELSE LET next == ConfigureStep(pc, outcome)
         IN  IF next = "rejected" THEN [w |-> SetupCatch(w), pc |-> "rejected"]
             ELSE IF next = "resolved" THEN SetupAddRoute(w, info)
             ELSE [w |-> w, pc |-> next]

\* A variant of connectToTunnelLockdown that does not await setupInterface
\* before it starts forwarding: C29 must not hold of it
ConnectContinueNoAwait(w, pc) ==
    IF pc = "rejected"
    THEN LET w1 == Stop(w)
         IN  [w |-> IF ~w1.sock.destroyed
                    THEN [w1 EXCEPT !.sock = SocketEnd(@)] ELSE w1,
              caller |-> "failed"]
    ELSE [w |-> startForwarding(w), caller |-> "returned"]

\* connectToTunnelLockdown after setupInterface has settled: start
\* forwarding and return the connection, or the catch block
ConnectContinue(w, pc) ==
    IF pc = "resolved" THEN [w |-> startForwarding(w), caller |-> "returned"]
    ELSE IF pc = "rejected"
    THEN LET w1 == Stop(w)
         IN  [w |-> IF ~w1.sock.destroyed
                    THEN [w1 EXCEPT !.sock = SocketEnd(@)] ELSE w1,
              caller |-> "failed"]
    ELSE [w |-> w, caller |-> "setup"]

----------------------------------------------------------------------------
(* TunTap.configure / TunTap.addRoute on every platform.  A command ends   *)
(* in one of ExecOutcomes or: "alreadyExists" (it failed and its message   *)
(* contains 'already exists' or 'duplicate'), "accessDenied" ('Access is   *)
(* denied' or 'Administrator'), "empty" (it succeeded and printed          *)
(* nothing).  "exists" is a failure whose message contains 'File exists',  *)
(* "denied" one whose message contains 'Permission denied'.  Positions on  *)
(* Windows: "find" / "findRoute" (Get-NetAdapter), "addr"                  *)
(* (New-NetIPAddress), "mtu" (Set-NetIPInterface), "enable"                *)
(* (Enable-NetAdapter), "route" (New-NetRoute); on macOS: "addr" (ifconfig *)
(* inet6), "link" (ifconfig mtu), "route" (route -n add).                  *)

Platforms == {"darwin", "linux", "win32"}

PlatformOutcomes == ExecOutcomes \cup {"alreadyExists", "accessDenied", "empty"}

\* The command exited with status 0
Succeeded(outcome) == outcome \in {"ok", "empty"}

\* How the Linux branches see an outcome: they look for 'Permission denied'
\* and 'File exists' only
LinuxOutcome(outcome) ==
    CASE outcome \in {"alreadyExists", "accessDenied"} -> "error"
      [] outcome = "empty" -> "ok"
      [] OTHER -> outcome

\* How the catch blocks of the Windows branches settle a failed command
Win32Catch(outcome) ==
    IF outcome = "accessDenied" THEN "rejected"
    ELSE IF outcome = "alreadyExists" THEN "resolved"
    ELSE "rejected"

\* The first command configure issues
ConfigureFirst(platform) ==
    CASE platform = "darwin" -> "addr"
      [] platform = "linux" -> "which"
      [] platform = "win32" -> "find"
      [] OTHER -> "rejected"

\* The first command addRoute issues
AddRouteFirst(platform) ==
    CASE platform \in {"darwin", "linux"} -> "route"
      [] platform = "win32" -> "findRoute"
      [] OTHER -> "rejected"

\* What configure does when the command it awaits completes
PlatformConfigureStep(platform, pc, outcome) ==
    CASE platform = "linux" -> ConfigureStep(pc, LinuxOutcome(outcome))
      [] platform = "darwin" ->
            IF ~Succeeded(outcome) THEN "rejected"
            ELSE IF pc = "addr" THEN "link" ELSE "resolved"
      [] platform = "win32" ->
            \* a failure to set the MTU is logged, and the adapter is enabled
            IF pc = "mtu" THEN "enable"
            ELSE IF ~Succeeded(outcome) THEN Win32Catch(outcome)
            ELSE IF pc = "find"
            THEN IF outcome = "empty" THEN "rejected" ELSE "addr"
            ELSE IF pc = "addr" THEN "mtu"
            ELSE "resolved"

\* What addRoute does when the command it awaits completes; its outer catch
\* lets pass every error whose message contains 'already exists'
PlatformAddRouteStep(platform, pc, outcome) ==
    CASE platform = "linux" ->
            IF outcome = "alreadyExists" THEN "resolved"
            ELSE AddRouteStep(LinuxOutcome(outcome))
      [] platform = "darwin" ->
            IF Succeeded(outcome) \/ outcome = "alreadyExists" THEN "resolved"
            ELSE "rejected"
      [] platform = "win32" ->
            IF ~Succeeded(outcome) THEN Win32Catch(outcome)
            ELSE IF pc = "findRoute"
            THEN IF outcome = "empty" THEN "rejected" ELSE "route"
            ELSE "resolved"

----------------------------------------------------------------------------
(* Inputs: the datagrams the peer sends.                                   *)

\* A 40-byte IPv6 header: first byte, payload length, next header; source
\* fd00::2, destination fd00::1
Header(firstByte, payloadLength, nextHeader) ==
    [i \in 1..HeaderLen |->
        CASE i = 1 -> firstByte
          [] i = 5 -> payloadLength \div 256
          [] i = 6 -> payloadLength % 256
          [] i = 7 -> nextHeader
          [] i = 9 -> 253
          [] i = 25 -> 253
          [] i = 24 -> 2
          [] i = 40 -> 1
          [] OTHER -> 0]

\* The UDP datagram of the fanout scenario: 48 bytes, ports 1234 -> 5678
UdpDatagram == Header(96, 8, NextHeaderUDP) \o <<4, 210, 22, 46, 0, 8, 0, 0>>

\* A TCP datagram: 20-byte TCP header (data offset 5) and a 2-byte payload
\* whose bytes look like the start of an IPv6 header
TcpDatagram ==
    Header(96, 22, NextHeaderTCP)
        \o <<0, 80, 31, 144, 0, 0, 0, 0, 0, 0, 0, 0, 80, 0, 0, 0, 0, 0, 0, 0>>
        \o <<96, 96>>

\* A datagram that is neither UDP nor TCP, with a payload of 256 bytes of
\* value 0x60 (payload length needs both bytes of the length field)
LongDatagram == Header(111, 256, 59) \o [i \in 1..256 |-> 96]

\* The largest payload a write accepts, and a datagram one byte larger
MaxPayload == MaxWriteLen - HeaderLen
JumboDatagram == Header(96, MaxPayload + 1, 59) \o [i \in 1..(MaxPayload + 1) |-> 0]

DatagramKinds == {"udp", "tcp", "long", "jumbo"}

\* A datagram with the given next header and L4 payload
L4Datagram(nextHeader, payload) == Header(96, Len(payload), nextHeader) \o payload

\* The first n bytes of a TCP segment from port 80 to port 8080 whose data
\* offset field is dataOffset, followed by bytes of value 170
TcpSegment(dataOffset, n) ==
    [i \in 1..n |->
        CASE i = 2 -> 80
          [] i = 3 -> 31
          [] i = 4 -> 144
          [] i = 13 -> dataOffset * 16
          [] i > 20 -> 170
          [] OTHER -> 0]

\* The first n bytes of a UDP datagram from port 1234 to port 5678 whose
\* header is followed by bytes of value 187
UdpSegment(n) ==
    [i \in 1..n |->
        CASE i = 1 -> 4
          [] i = 2 -> 210
          [] i = 3 -> 22
          [] i = 4 -> 46
          [] i > 8 -> 187
          [] OTHER -> 0]

\* The datagrams that exercise the L4 parse: UDP and TCP around the minimal
\* header lengths, TCP data offsets 0, 5 and 6, ICMPv6, and the datagram the
\* interface does not accept
L4Kinds ==
    {"udp0", "udp7", "udp", "udp9", "tcp15", "tcp19", "tcp20", "tcp",
     "tcp20off6", "tcp24off6", "tcp26off6", "tcp20off0", "icmp", "jumbo"}

\* Bytes between datagrams whose top nibble is not 6 (the low nibble of two
\* of them is)
StrayByte == <<6>>
StrayBytes == <<70, 6, 255>>

DatagramBytes(kind) ==
    CASE kind = "udp" -> UdpDatagram
      [] kind = "tcp" -> TcpDatagram
      [] kind = "long" -> LongDatagram
      [] kind = "jumbo" -> JumboDatagram
      [] kind = "stray" -> StrayByte
      [] kind = "strays" -> StrayBytes
      [] kind = "udp0" -> L4Datagram(NextHeaderUDP, UdpSegment(0))
      [] kind = "udp7" -> L4Datagram(NextHeaderUDP, UdpSegment(7))
      [] kind = "udp9" -> L4Datagram(NextHeaderUDP, UdpSegment(9))
      [] kind = "tcp15" -> L4Datagram(NextHeaderTCP, TcpSegment(5, 15))
      [] kind = "tcp19" -> L4Datagram(NextHeaderTCP, TcpSegment(5, 19))
      [] kind = "tcp20" -> L4Datagram(NextHeaderTCP, TcpSegment(5, 20))
      [] kind = "tcp20off6" -> L4Datagram(NextHeaderTCP, TcpSegment(6, 20))
      [] kind = "tcp24off6" -> L4Datagram(NextHeaderTCP, TcpSegment(6, 24))
      [] kind = "tcp26off6" -> L4Datagram(NextHeaderTCP, TcpSegment(6, 26))
      [] kind = "tcp20off0" -> L4Datagram(NextHeaderTCP, TcpSegment(0, 20))
      [] kind = "icmp" -> L4Datagram(58, UdpSegment(8))

\* The bytes of a sequence of datagrams (named by kind)
RECURSIVE WireBytes(_)
WireBytes(kinds) ==
    IF Len(kinds) = 0 THEN <<>>
    ELSE DatagramBytes(kinds[1]) \o WireBytes(Tail(kinds))

\* The byte offset at which the first k datagrams of kinds end
RECURSIVE Boundary(_, _)
Boundary(kinds, k) ==
    IF k = 0 THEN 0
    ELSE Boundary(kinds, k - 1) + Len(DatagramBytes(kinds[k]))

\* How many datagrams of kinds are complete in the first n bytes
Complete(kinds, n) ==
    Cardinality({k \in 1..Len(kinds) : Boundary(kinds, k) <= n})

----------------------------------------------------------------------------
(* The handshake (exchangeCoreTunnelParameters): JSON text, the CDTunnel   *)
(* frame and the listeners of the call.  Text is a sequence of bytes.  A   *)
(* JSON value is a record [t, n, s, m]: a number n, a string s, or an      *)
(* object with members m (a sequence of [k, v], in insertion order).       *)

JNum(n) == [t |-> "num", n |-> n, s |-> <<>>, m |-> <<>>]
JStr(str) == [t |-> "str", n |-> 0, s |-> str, m |-> <<>>]
JObj(members) == [t |-> "obj", n |-> 0, s |-> <<>>, m |-> members]
JUndefined == [t |-> "undefined", n |-> 0, s |-> <<>>, m |-> <<>>]

\* The decimal digits of a natural number
RECURSIVE Digits(_)
Digits(n) ==
    IF n < 10 THEN <<48 + n>> ELSE Digits(n \div 10) \o <<48 + (n % 10)>>

\* JSON.stringify of a value built from objects, strings without characters
\* that need escaping, and natural numbers
RECURSIVE Stringify(_)
RECURSIVE StringifyMembers(_, _)
StringifyMembers(members, i) ==
    IF i > Len(members) THEN <<>>
    ELSE (IF i > 1 THEN <<44>> ELSE <<>>)
            \o <<34>> \o members[i].k \o <<34, 58>> \o Stringify(members[i].v)
            \o StringifyMembers(members, i + 1)

Stringify(v) ==
    CASE v.t = "num" -> Digits(v.n)
      [] v.t = "str" -> <<34>> \o v.s \o <<34>>
      [] v.t = "obj" -> <<123>> \o StringifyMembers(v.m, 1) \o <<125>>

\* The byte at position i (1-based) of text b, or -1 beyond its end
At(b, i) == IF i >= 1 /\ i <= Len(b) THEN b[i] ELSE -1

IsDigit(c) == c >= 48 /\ c <= 57

ParseFail == [ok |-> FALSE, v |-> JUndefined, next |-> 0]

\* The position after the run of digits that starts at i
RECURSIVE DigitsEnd(_, _)
DigitsEnd(b, i) == IF IsDigit(At(b, i)) THEN DigitsEnd(b, i + 1) ELSE i

RECURSIVE DigitsValue(_, _, _)
DigitsValue(b, i, j) ==
    IF j < i THEN 0 ELSE DigitsValue(b, i, j - 1) * 10 + (b[j] - 48)

\* A JSON number at i: a natural number without leading zeros
ParseNumber(b, i) ==
    IF ~IsDigit(At(b, i)) THEN ParseFail
    ELSE IF At(b, i) = 48 THEN [ok |-> TRUE, v |-> JNum(0), next |-> i + 1]
    ELSE [ok |-> TRUE, v |-> JNum(DigitsValue(b, i, DigitsEnd(b, i) - 1)),
          next |-> DigitsEnd(b, i)]

\* A JSON string at i: a quote, characters that are neither quotes, nor
\* backslashes, nor control characters, and a quote
ParseString(b, i) ==
    LET quotes == { j \in (i + 1)..Len(b) : b[j] = 34 }
        close == CHOOSE j \in quotes : \A k \in quotes : j <= k
    IN  IF At(b, i) # 34 \/ quotes = {} THEN ParseFail
        ELSE IF \E j \in (i + 1)..(close - 1) : b[j] = 92 \/ b[j] < 32
        THEN ParseFail
        ELSE [ok |-> TRUE, v |-> JStr(SubSeq(b, i + 1, close - 1)),
              next |-> close + 1]

\* A JSON value at i, and the members of an object from i on (after the
\* opening brace or a comma) given the members acc read so far
RECURSIVE ParseValue(_, _)
RECURSIVE ParseMembers(_, _, _)
ParseMembers(b, i, acc) ==
    LET key == ParseString(b, i)
        val == ParseValue(b, key.next + 1)
        members == Append(acc, [k |-> key.v.s, v |-> val.v])
    IN  IF ~key.ok \/ At(b, key.next) # 58 THEN ParseFail
        ELSE IF ~val.ok THEN ParseFail
        ELSE IF At(b, val.next) = 44 THEN ParseMembers(b, val.next + 1, members)
        ELSE IF At(b, val.next) = 125
        THEN [ok |-> TRUE, v |-> JObj(members), next |-> val.next + 1]
        ELSE ParseFail

ParseValue(b, i) ==
    IF At(b, i) = 123
    THEN IF At(b, i + 1) = 125
         THEN [ok |-> TRUE, v |-> JObj(<<>>), next |-> i + 2]
         ELSE ParseMembers(b, i + 1, <<>>)
    ELSE IF At(b, i) = 34 THEN ParseString(b, i)
    ELSE ParseNumber(b, i)

\* JSON.parse(text): the value, or a failure (SyntaxError) when the text is
\* not one JSON value
JSONParse(b) ==
    LET r == ParseValue(b, 1)
    IN  IF r.ok /\ r.next = Len(b) + 1 THEN r ELSE ParseFail

\* Buffer.from('CDTunnel')
Magic ==
    <<67, 68, 84, 117, 110, 110, 101, 108>>

\* The largest length the 2-byte length field holds
MaxFrameLen == 65535

\* buf.writeUInt16BE(n) into a 2-byte buffer
WriteUInt16BE(n) == <<n \div 256, n % 256>>

\* Buffer.concat([magic, length, jsonBuffer])
Frame(payload) == Magic \o WriteUInt16BE(Len(payload)) \o payload

\* Names and strings of the handshake objects
Str_type ==
    <<116, 121, 112, 101>>
Str_clientHandshakeRequest ==
    <<99, 108, 105, 101, 110, 116, 72, 97, 110, 100, 115, 104, 97, 107,
      101, 82, 101, 113, 117, 101, 115, 116>>
Str_mtu ==
    <<109, 116, 117>>
Str_clientParameters ==
    <<99, 108, 105, 101, 110, 116, 80, 97, 114, 97, 109, 101, 116, 101,
      114, 115>>
Str_address ==
    <<97, 100, 100, 114, 101, 115, 115>>
Str_serverAddress ==
    <<115, 101, 114, 118, 101, 114, 65, 100, 100, 114, 101, 115, 115>>
Str_serverRSDPort ==
    <<115, 101, 114, 118, 101, 114, 82, 83, 68, 80, 111, 114, 116>>
Str_fd00_1 ==
    <<102, 100, 48, 48, 58, 58, 49>>
Str_fd00_2 ==
    <<102, 100, 48, 48, 58, 58, 50>>

\* { type: 'clientHandshakeRequest', mtu: 16000 }
RequestObject ==
    JObj(<<[k |-> Str_type, v |-> JStr(Str_clientHandshakeRequest)],
           [k |-> Str_mtu, v |-> JNum(16000)]>>)

\* A TunnelInfo: { clientParameters: { address: 'fd00::2', mtu: 1500 },
\*                 serverAddress: 'fd00::1', serverRSDPort: 58783 }
TunnelInfoObject ==
    JObj(<<[k |-> Str_clientParameters,
            v |-> JObj(<<[k |-> Str_address, v |-> JStr(Str_fd00_2)],
                         [k |-> Str_mtu, v |-> JNum(1500)]>>)],
           [k |-> Str_serverAddress, v |-> JStr(Str_fd00_1)],
           [k |-> Str_serverRSDPort, v |-> JNum(58783)]>>)

\* An object whose text has n bytes (n >= 8): { k: 'aaa...' }
ObjectOfLength(n) ==
    JObj(<<[k |-> <<107>>, v |-> JStr([i \in 1..(n - 8) |-> 97])]>>)

\* The settled or pending state of a call that has not been made
NoHandshake ==
    [state |-> "idle", reason |-> "", value |-> JUndefined, calls |-> 0,
     written |-> <<>>, buffer |-> <<>>,
     onData |-> FALSE, onError |-> FALSE, onEnd |-> FALSE, timer |-> FALSE,
     response |-> <<>>, object |-> JUndefined, pos |-> 0, chunks |-> 0,
     socket |-> "open", elapsed |-> FALSE]

\* resolve(value) or reject(reason): the first call settles the promise,
\* later calls have no effect
Settle(h, state, reason, value) ==
    IF h.state = "pending"
    THEN [h EXCEPT !.state = state, !.reason = reason, !.value = value,
                   !.calls = @ + 1]
    ELSE [h EXCEPT !.calls = @ + 1]

\* A variant of cleanup that leaves the timer running: C15 must not hold of
\* it
HsCleanupKeepTimer(h) ==
    [h EXCEPT !.onData = FALSE, !.onError = FALSE, !.onEnd = FALSE]

\* cleanup(): the three listeners are removed and the timer is cleared
HsCleanup(h) ==
    [h EXCEPT !.onData = FALSE, !.onError = FALSE, !.onEnd = FALSE,
              !.timer = FALSE]

\* A variant of handleData that parses what it has as soon as the header
\* has arrived: C14 must not hold of it
HandleDataNoWait(h, data) ==
    LET buffer == h.buffer \o data
        h1 == [h EXCEPT !.buffer = buffer]
    IN  IF Len(buffer) < 10 THEN h1
        ELSE IF Slice(buffer, 0, 8) # Magic
        THEN Settle(HsCleanup(h1), "rejected", "Invalid packet format", JUndefined)
        ELSE LET totalLength == 8 + 2 + ReadUInt16BE(buffer, 8)
                 response == JSONParse(Slice(buffer, 10, totalLength))
             IN  IF response.ok
                 THEN Settle(HsCleanup(h1), "resolved", "", response.v)
                 ELSE Settle(HsCleanup(h1), "rejected", "Invalid JSON response",
                             JUndefined)

\* handleData(data)
HandleData(h, data) ==
    LET buffer == h.buffer \o data
        h1 == [h EXCEPT !.buffer = buffer]
    IN  IF Len(buffer) < 10 THEN h1
        ELSE IF Slice(buffer, 0, 8) # Magic
        THEN Settle(HsCleanup(h1), "rejected", "Invalid packet format", JUndefined)
        ELSE LET totalLength == 8 + 2 + ReadUInt16BE(buffer, 8)
                 response == JSONParse(Slice(buffer, 10, totalLength))
             IN  IF Len(buffer) >= totalLength
                 THEN IF response.ok
                      THEN Settle(HsCleanup(h1), "resolved", "", response.v)
                      ELSE Settle(HsCleanup(h1), "rejected", "Invalid JSON response",
                                  JUndefined)
                 ELSE h1

\* handleError(err)
HandleError(h) == Settle(HsCleanup(h), "rejected", "socket error", JUndefined)

\* handleEnd()
HandleEnd(h) ==
    Settle(HsCleanup(h), "rejected",
           "Connection closed before receiving complete response", JUndefined)

\* The callback of the 30 s timer
HandleTimeout(h) ==
    Settle(HsCleanup(h), "rejected", "Tunnel handshake timeout", JUndefined)

\* exchangeCoreTunnelParameters(socket): the request is written, the timer
\* is armed and the listeners are registered
ExchangeCall(h) ==
    [h EXCEPT !.state = "pending",
              !.written = Frame(Stringify(RequestObject)),
              !.timer = TRUE,
              !.onData = TRUE, !.onError = TRUE, !.onEnd = TRUE]

\* The other managers of the process: none has been constructed; the
\* process has not exited
NoExit == -1
NoFleet == [constructed |-> {}, stopped |-> {}, exitCode |-> NoExit,
            cause |-> "none"]

\* The managers besides the first: they are constructed and stopped, and
\* never given an interface or a connection
OtherManagers == 2..MaxManagers

\* stop() on another manager k: _performStop runs unless a completion is
\* cached
StopOther(f, k) ==
    IF k \in f.stopped THEN f ELSE [f EXCEPT !.stopped = @ \cup {k}]

\* A variant of the shutdown that stops no manager: C20 must not hold of it
StopManagersNone(f, managers) == f

\* managers.map(manager => manager.stop()) for the other managers
RECURSIVE StopManagers(_, _)
StopManagers(f, managers) ==
    IF managers = {} THEN f
    ELSE LET k == CHOOSE m \in managers : TRUE
         IN  StopManagers(StopOther(f, k), managers \ {k})

----------------------------------------------------------------------------
(* Initial state: a TunnelManager has just been constructed, either by     *)
(* connectToTunnelLockdown (which is waiting for the handshake) or by the  *)
(* user ("direct").                                                        *)

\* No API call on a bare handle has been observed yet
----------------------------------------------------------------------------
(* The native device in detail (tuntap.cc, tuntap_win.cc).  A device is a   *)
(* record of the members of TunDevice / TunDeviceWin, of the position of    *)
(* the JavaScript thread inside a method (op, proceed, waiting), of the     *)
(* positions of the poller threads StartPolling has created, and of what    *)
(* the OS holds for the device (os).  orphans and staleUse record history:  *)
(* the threads StopPolling gave up waiting for, and whether a poller thread *)
(* has used a session or a thread-safe function that was no longer live.    *)
(* queued tells whether a call made through the thread-safe function waits  *)
(* for the JavaScript thread, closed whether Close has returned since the   *)
(* device was last opened, lateCallback whether the callback has run then.  *)

\* How many poller threads the model follows
MaxThreads == 2

\* The descriptor the OS hands out
SomeFd == 3

NoDevice ==
    [is_open |-> FALSE, fd |-> -1, adapter |-> FALSE, session |-> FALSE,
     read_event |-> FALSE, read_thread |-> 0, stop_polling |-> FALSE,
     tsfn |-> "none", lock |-> "free", op |-> "none", proceed |-> FALSE,
     waiting |-> FALSE, threads |-> [t \in 1..MaxThreads |-> "none"],
     os |-> [fds |-> 0, adapters |-> 0, sessions |-> 0],
     queued |-> FALSE, closed |-> FALSE,
     orphans |-> {}, staleUse |-> FALSE, lateCallback |-> FALSE,
     result |-> "none"]

\* std::mutex device_mutex_ is a member of TunDeviceWin only
HasLock(platform) == platform = "win32"

\* A variant of a method's entry that does not take the lock: C33 must not
\* hold of it
DeviceEnterNoLock(d, platform, op) == [d EXCEPT !.op = op]

\* Entry of a public method: std::lock_guard<std::mutex> lock(device_mutex_)
DeviceEnter(d, platform, op) ==
    [d EXCEPT !.op = op, !.lock = IF HasLock(platform) THEN "js" ELSE @]

\* Return of a public method: the lock_guard is destroyed
DeviceLeave(d, result) ==
    [d EXCEPT !.op = "none", !.lock = "free", !.proceed = FALSE,
              !.waiting = FALSE, !.result = result]

\* close(fd); fd = -1
CloseFd(d) == [d EXCEPT !.fd = -1, !.os.fds = @ - 1]

\* EndSession(session_); session_ = nullptr
EndSession(d) == [d EXCEPT !.session = FALSE, !.os.sessions = @ - 1]

\* CloseAdapter(adapter_); adapter_ = nullptr
CloseAdapter(d) == [d EXCEPT !.adapter = FALSE, !.os.adapters = @ - 1]

\* The calls of Open that can fail, in order
OpenSteps(platform) ==
    CASE platform = "darwin" -> <<"socket", "ctlinfo", "connect", "ifname">>
      [] platform = "linux" -> <<"open", "tunsetiff">>
      [] platform = "win32" ->
             <<"api", "name", "guid", "adapter", "session", "event">>

\* What a call of Open acquires when it succeeds
Acquire(d, step) ==
    CASE step \in {"socket", "open"} ->
             [d EXCEPT !.fd = SomeFd, !.os.fds = @ + 1]
      [] step = "adapter" -> [d EXCEPT !.adapter = TRUE, !.os.adapters = @ + 1]
      [] step = "session" -> [d EXCEPT !.session = TRUE, !.os.sessions = @ + 1]
      [] step = "event" -> [d EXCEPT !.read_event = TRUE]
      [] OTHER -> d

\* A variant of the error paths of Open that leaves the session running
\* when the wait event cannot be had: C38 must not hold of it
OpenFailKeepSession(d, step) ==
    CASE step \in {"ctlinfo", "connect", "ifname", "tunsetiff"} -> CloseFd(d)
      [] step = "session" -> CloseAdapter(d)
      [] step = "event" -> CloseAdapter(d)
      [] OTHER -> d

\* The error path of Open when the call step fails
OpenFail(d, step) ==
    CASE step \in {"ctlinfo", "connect", "ifname", "tunsetiff"} -> CloseFd(d)
      [] step = "session" -> CloseAdapter(d)
      [] step = "event" -> CloseAdapter(EndSession(d))
      [] OTHER -> d

\* Open from its i-th call on; failAt is the call that fails (0: none)
RECURSIVE RunOpen(_, _, _, _)
RunOpen(d, steps, i, failAt) ==
    IF i > Len(steps)
    THEN [d |-> [d EXCEPT !.is_open = TRUE, !.closed = FALSE], threw |-> FALSE]
    ELSE IF i = failAt THEN [d |-> OpenFail(d, steps[i]), threw |-> TRUE]
    ELSE RunOpen(Acquire(d, steps[i]), steps, i + 1, failAt)

\* TunDevice::Open / TunDeviceWin::Open
DeviceOpen(d, platform, failAt) ==
    IF d.is_open THEN [d |-> d, threw |-> FALSE]
    ELSE RunOpen(d, OpenSteps(platform), 1, failAt)

\* TunDeviceWin::StopPolling up to WaitForSingleObject(read_thread_, 5000)
StopPollingBegin(d) ==
    IF d.read_thread # 0
    THEN [d EXCEPT !.stop_polling = TRUE, !.waiting = TRUE]
    ELSE d

\* WaitForSingleObject(read_thread_, 5000) returns: the thread has ended,
\* or the five seconds have passed
WaitDone(d, timedOut) ==
    IF d.waiting THEN d.threads[d.read_thread] = "exited" \/ timedOut
    ELSE TRUE

\* TunDeviceWin::StopPolling after the wait: the thread handle is closed and
\* the thread-safe function released, whatever the wait returned
StopPollingEnd(d) ==
    LET d1 == IF d.read_thread # 0
              THEN [d EXCEPT !.orphans =
                         IF d.threads[d.read_thread] # "exited"
                         THEN @ \cup {d.read_thread} ELSE @,
                             !.read_thread = 0, !.waiting = FALSE]
              ELSE d
    IN  IF d1.tsfn # "none" THEN [d1 EXCEPT !.tsfn = "released"] ELSE d1

\* The first part of a public method, up to the point where it may block
DeviceCallBody(d, platform, op) ==
    LET d1 == DeviceEnter(d, platform, op)
    IN  IF platform = "win32" /\ op = "close" /\ d1.is_open
        \* CloseInternal: is_open_.exchange(false), then StopPolling
        THEN StopPollingBegin([d1 EXCEPT !.is_open = FALSE, !.proceed = TRUE])
        ELSE IF op = "startPolling" /\ d1.is_open /\ d1.session
        THEN StopPollingBegin([d1 EXCEPT !.proceed = TRUE])
        ELSE d1

\* The poller thread slot StartPolling uses next
FreeThreads(d) == { t \in 1..MaxThreads : d.threads[t] = "none" }
NextThread(d) == CHOOSE t \in FreeThreads(d) : \A u \in FreeThreads(d) : t <= u

\* The rest of a public method, to its return.  failAt is the failing call
\* of Open, threadOk whether CreateThread succeeds
DeviceReturnBody(d, platform, failAt, threadOk) ==
    CASE d.op = "open" ->
             LET r == DeviceOpen(d, platform, failAt)
             IN  DeviceLeave(r.d, IF r.threw THEN "threw" ELSE "true")
      [] d.op = "close" ->
             IF platform = "win32"
             THEN IF d.proceed
                  THEN LET d1 == StopPollingEnd(d)
                           d2 == IF d1.session THEN EndSession(d1) ELSE d1
                           d3 == IF d2.adapter THEN CloseAdapter(d2) ELSE d2
                       IN  DeviceLeave([d3 EXCEPT !.read_event = FALSE,
                                                  !.closed = TRUE], "true")
                  ELSE DeviceLeave(d, "true")
             ELSE IF d.is_open
             THEN DeviceLeave([CloseFd(d) EXCEPT !.is_open = FALSE], "true")
             ELSE DeviceLeave(d, "true")
      [] d.op = "startPolling" ->
             IF ~d.proceed THEN DeviceLeave(d, "threw")
             ELSE LET d1 == [StopPollingEnd(d) EXCEPT !.tsfn = "live",
                                                      !.stop_polling = FALSE]
                      t == NextThread(d1)
                  IN  IF threadOk
                      THEN DeviceLeave([d1 EXCEPT !.threads[t] = "check",
                                                  !.read_thread = t], "undefined")
                      ELSE DeviceLeave([d1 EXCEPT !.tsfn = "released"], "threw")
      [] d.op \in {"read", "write"} ->
             DeviceLeave(d, IF d.is_open THEN "value" ELSE "threw")
      [] OTHER -> DeviceLeave(d, "value")

\* Whether the poller thread uses a session that is not live
StaleSession(d) == ~d.session

\* One step of TunDeviceWin::ReadThreadProc in thread t; signalled is what
\* the wait on the read event returns, packet whether ReceivePacket has one
PollerStep(d, t, signalled, packet) ==
    CASE d.threads[t] = "check" ->
             [d EXCEPT !.threads[t] =
                  IF ~d.stop_polling /\ d.is_open THEN "wait" ELSE "exited"]
      [] d.threads[t] = "wait" ->
             [d EXCEPT !.threads[t] =
                  IF ~signalled \/ d.stop_polling THEN "check" ELSE "receive"]
      [] d.threads[t] = "receive" ->
             [d EXCEPT !.threads[t] = IF packet THEN "release" ELSE "check",
                       !.staleUse = @ \/ StaleSession(d)]
      [] d.threads[t] = "release" ->
             [d EXCEPT !.threads[t] = "call",
                       !.staleUse = @ \/ StaleSession(d)]
      [] d.threads[t] = "call" ->
             [d EXCEPT !.threads[t] = "check",
                       !.queued = @ \/ d.tsfn = "live",
                       !.staleUse = @ \/ d.tsfn # "live"]

\* The JavaScript thread runs the callback of a queued call.  A thread-safe
\* function that was released still delivers what was queued before
\* (Node-API: the queue is emptied before the function is destroyed)
RunCallback(d) ==
    [d EXCEPT !.queued = FALSE, !.lateCallback = @ \/ d.closed]

NoRet == [op |-> "none", step |-> "call", res |-> "none", reached |-> FALSE,
          closedBefore |-> FALSE]

\* The events the tunnel layer hooks
ProcessEvents == {"SIGINT", "SIGTERM", "uncaughtException", "unhandledRejection"}

\* The process when the module has been loaded and no manager constructed:
\* hooks counts the listeners the tunnel layer has installed for each event
LoadedProcess(platform) ==
    [activeTunnelManagers |-> {}, signalHandlersSetup |-> FALSE,
     hooks |-> [e \in ProcessEvents |-> 0],
     timerActive |-> FALSE, exited |-> FALSE, heap |-> <<>>,
     platform |-> platform, device |-> NoDevice]

\* A variant of setupSignalHandlers without the one-shot flag: C37 must not
\* hold of it
setupSignalHandlersEveryTime(p) ==
    [p EXCEPT !.signalHandlersSetup = TRUE,
              !.hooks = [e \in ProcessEvents |-> @[e] + 1]]

\* setupSignalHandlers(), which the constructor of TunnelManager calls
setupSignalHandlers(p) ==
    IF p.signalHandlersSetup THEN p
    ELSE [p EXCEPT !.signalHandlersSetup = TRUE,
                   !.hooks = [e \in ProcessEvents |-> @[e] + 1]]

InitManagerOn(platform) ==
    /\ mgr = [tun |-> Null, cancelled |-> FALSE, readInterval |-> Null,
              buffer |-> <<>>, packetConsumers |-> <<>>, deviceConn |-> Null,
              cleanupPromise |-> Null]
    /\ tap = NoTunTap
    /\ sock = [destroyed |-> FALSE, ended |-> FALSE, dataListener |-> FALSE,
               closeListener |-> FALSE, closePending |-> FALSE,
               closeEmitted |-> FALSE, errored |-> FALSE]
    /\ proc = [setupSignalHandlers(LoadedProcess(platform))
                  EXCEPT !.activeTunnelManagers = {1}]
    /\ setup = [pc |-> "idle", info |-> NoTunnelInfo]
    /\ streams = [status |-> "none", queue |-> <<>>, resolver |-> FALSE,
                  received |-> <<>>]
    /\ pos = 0
    /\ obs = [ingressWrites |-> <<>>, delivered |-> <<>>, tunReads |-> 0,
              connWrites |-> <<>>, cleanupRuns |-> 0, stopReturns |-> {},
              userStops |-> 0, ticks |-> 0, lateIO |-> 0,
              consumerErrors |-> 0, closerReturns |-> 0,
              refs |-> <<>>, mutated |-> {}, writeErrors |-> 0,
              tunPackets |-> <<>>,
              subscribedAt |-> [c \in AllConsumers |-> 0]]
    /\ ret = NoRet
    /\ hs = NoHandshake
    /\ fleet = NoFleet

\* The session and handle scenarios run on Linux
InitManager == InitManagerOn("linux")

\* The peer's stream in the session specifications: the UDP datagram of the
\* fanout scenario followed by a TCP datagram
SessionWire == <<"udp", "tcp">>

Init ==
    /\ InitManager
    /\ caller \in {"handshake", "direct"}
    /\ wire = SessionWire

----------------------------------------------------------------------------
(* Actions of the session.                                                 *)

\* process.exit() has not run
Running == ~proc.exited

\* The user holds the TunnelManager: it constructed it, or it got it in the
\* TunnelConnection that connectToTunnelLockdown returned
UserHasManager == caller \in {"direct", "returned"}

\* connectToTunnelLockdown: exchangeCoreTunnelParameters settles; on success
\* setupInterface runs up to its first await (or throws before it)
HandshakeSettle(ok, info, nativeOk) ==
    /\ Running
    /\ caller = "handshake"
    /\ IF ok
       THEN LET r == SetupInterfaceCall(World, info, nativeOk)
                c == ConnectContinue(r.w, r.pc)
            IN  /\ Commit(c.w)
                /\ setup' = [pc |-> r.pc, info |-> info]
                /\ caller' = c.caller
       ELSE LET c == ConnectContinue(World, "rejected")
            IN  /\ Commit(c.w)
                /\ caller' = c.caller
                /\ UNCHANGED setup
    /\ UNCHANGED <<wire, pos, ret, hs, fleet>>

\* The user calls setupInterface on a manager it constructed (once)
UserSetupInterface(info, nativeOk) ==
    /\ Running
    /\ caller = "direct"
    /\ setup.pc = "idle"
    /\ LET r == SetupInterfaceCall(World, info, nativeOk)
       IN  /\ Commit(r.w)
           /\ setup' = [pc |-> r.pc, info |-> info]
    /\ UNCHANGED <<caller, wire, pos, ret, hs, fleet>>

\* The command setupInterface awaits completes; setupInterface continues to
\* its next await or settles, and connectToTunnelLockdown continues with it
ExecDone(outcome) ==
    /\ Running
    /\ caller \in {"setup", "direct"}
    /\ setup.pc \in {"which", "addr", "link", "route"}
    /\ LET r == SetupInterfaceStep(World, setup.pc, setup.info, outcome)
           c == ConnectContinue(r.w, r.pc)
       IN  /\ setup' = [setup EXCEPT !.pc = r.pc]
           /\ IF caller = "setup"
              THEN Commit(c.w) /\ caller' = c.caller
              ELSE Commit(r.w) /\ UNCHANGED caller
    /\ UNCHANGED <<wire, pos, ret, hs, fleet>>

\* The user calls startForwarding(deviceConn) after its setupInterface call
\* has settled, or without having called it
UserStartForwarding ==
    /\ Running
    /\ caller = "direct"
    /\ setup.pc \in {"idle", "resolved", "rejected"}
    /\ ~sock.dataListener
    /\ Commit(startForwarding(World))
    /\ UNCHANGED <<setup, caller, wire, pos, ret, hs, fleet>>

\* The chunk boundaries the socket may choose, as byte offsets into the
\* stream: coarse ones (datagram boundaries and 12 bytes into a datagram)
\* and fine ones (around every field of the header and the last byte)
CoarseCuts(kinds) ==
    { Boundary(kinds, k) : k \in 1..Len(kinds) }
        \cup { Boundary(kinds, k - 1) + 12 : k \in 1..Len(kinds) }

FineCuts(kinds) ==
    UNION { { Boundary(kinds, k - 1) + d : d \in {1, 6, 12, 24, 36, 39, 40, 41} }
               \cup { Boundary(kinds, k) - 1, Boundary(kinds, k) }
            : k \in 1..Len(kinds) }

\* The socket emits 'data' with the next n bytes of the stream; a destroyed
\* socket emits no 'data'
StreamData(cuts, n) ==
    /\ Running
    /\ sock.dataListener
    /\ ~sock.destroyed
    /\ n > 0
    /\ pos + n \in cuts
    /\ Commit(DataHandler(World, Slice(WireBytes(wire), pos, pos + n)))
    /\ pos' = pos + n
    /\ UNCHANGED <<setup, caller, wire, ret, hs, fleet>>

\* The peer closes the stream: the socket is destroyed and will emit 'close'
PeerClose ==
    /\ Running
    /\ caller # "handshake"
    /\ ~sock.destroyed
    /\ sock' = SocketDestroy(sock)
    /\ UNCHANGED <<mgr, tap, proc, setup, caller, streams, wire, pos, obs, ret, hs, fleet>>

\* The socket emits 'close' (after destroy() by stop() or by the peer's close)
SocketClose ==
    /\ Running
    /\ sock.closePending
    /\ LET w1 == [World EXCEPT !.sock.closePending = FALSE,
                              !.sock.closeEmitted = TRUE]
       IN  Commit(IF sock.closeListener THEN CloseHandler(w1) ELSE w1)
    /\ UNCHANGED <<setup, caller, wire, pos, ret, hs, fleet>>

\* A packet the interface hands to the poller (a minimal IPv6 datagram)
EgressPacket == Header(96, 0, 59)

\* The 5 ms timer fires; data is what the interface has for the poller
PollTick(data) ==
    /\ Running
    /\ proc.timerActive
    /\ obs.ticks < MaxPollTicks
    /\ Commit(PollHandler([World EXCEPT !.obs.ticks = @ + 1], data))
    /\ UNCHANGED <<setup, caller, wire, pos, ret, hs, fleet>>

\* The user calls stop() on the manager
UserStop ==
    /\ Running
    /\ UserHasManager
    /\ obs.userStops < MaxUserStops
    /\ Commit(Stop([World EXCEPT !.obs.userStops = @ + 1]))
    /\ UNCHANGED <<setup, caller, wire, pos, ret, hs, fleet>>

\* The user calls closer() of the TunnelConnection
Closer ==
    /\ Running
    /\ caller = "returned"
    /\ obs.userStops < MaxUserStops
    /\ LET w1 == Stop([World EXCEPT !.obs.userStops = @ + 1])
           w2 == IF ~w1.sock.destroyed
                 THEN [w1 EXCEPT !.sock = SocketEnd(@)] ELSE w1
       IN  Commit([w2 EXCEPT !.obs.closerReturns = @ + 1])
    /\ UNCHANGED <<setup, caller, wire, pos, ret, hs, fleet>>

\* The cleanup a TunTap registers for 'exit', SIGINT and SIGTERM
TunTapCleanup(t) ==
    IF t.listeners /\ t.isOpen /\ ~t.isClosed THEN TunTapClose(t, TRUE).tap ELSE t

\* process.exit(code): the 'exit' listeners run (the handle's cleanup) and
\* the process ends; nothing after the call is executed, so a second call
\* is never reached
ProcessExit(w, f, code) ==
    IF w.proc.exited THEN [w |-> w, f |-> f]
    ELSE [w |-> [w EXCEPT !.tap = TunTapCleanup(@),
                          !.proc.exited = TRUE,
                          !.proc.timerActive = FALSE],
          f |-> [f EXCEPT !.exitCode = code]]

\* gracefulShutdown: stop() on every registered manager (_performStop of
\* each removes it from the registry), then process.exit(0)
GracefulShutdown(w, f) ==
    LET managers == w.proc.activeTunnelManagers
        w1 == IF 1 \in managers THEN Stop(w) ELSE w
        f1 == StopManagers(f, managers \ {1})
        w2 == [w1 EXCEPT !.proc.activeTunnelManagers = @ \ f1.stopped]
    IN  ProcessExit(w2, f1, 0)

\* SIGINT or SIGTERM: gracefulShutdown stops every registered manager, the
\* handle's own cleanup runs, and the process exits with code 0
Signal ==
    /\ Running
    /\ LET g == GracefulShutdown(World, [fleet EXCEPT !.cause = "signal"])
       IN  Commit(g.w) /\ fleet' = g.f
    /\ UNCHANGED <<setup, caller, wire, pos, ret, hs>>

\* process.on('uncaughtException'): await gracefulShutdown(...), then
\* process.exit(1)
UncaughtException ==
    /\ Running
    /\ LET g == GracefulShutdown(World,
                                 [fleet EXCEPT !.cause = "uncaughtException"])
           e == ProcessExit(g.w, g.f, 1)
       IN  Commit(e.w) /\ fleet' = e.f
    /\ UNCHANGED <<setup, caller, wire, pos, ret, hs>>

\* The user subscribes a push consumer
AddPacketConsumer(c) ==
    /\ Running
    /\ UserHasManager
    /\ ~Contains(mgr.packetConsumers, c)
    /\ Commit(addPacketConsumer(World, c))
    /\ UNCHANGED <<setup, caller, wire, pos, ret, hs, fleet>>

\* The user calls getPacketStream(): the generator object is created, its
\* body has not started
GetPacketStream ==
    /\ Running
    /\ UserHasManager
    /\ streams.status = "none"
    /\ streams' = [streams EXCEPT !.status = "created"]
    /\ UNCHANGED <<mgr, tap, sock, proc, setup, caller, wire, pos, obs, ret, hs, fleet>>

\* The reader of the stream pulls (for await): the generator resumes
StreamPull ==
    /\ Running
    /\ streams.status \in {"created", "yielded"}
    /\ Commit(StreamNext(World))
    /\ UNCHANGED <<setup, caller, wire, pos, ret, hs, fleet>>

Next ==
    \/ \E ok \in BOOLEAN, info \in TunnelInfos, nativeOk \in BOOLEAN :
           HandshakeSettle(ok, info, nativeOk)
    \/ \E info \in TunnelInfos, nativeOk \in BOOLEAN :
           UserSetupInterface(info, nativeOk)
    \/ \E outcome \in ExecOutcomes : ExecDone(outcome)
    \/ UserStartForwarding
    \/ \E n \in 1..Len(WireBytes(wire)) : StreamData(CoarseCuts(wire), n)
    \/ PeerClose
    \/ SocketClose
    \/ \E data \in {<<>>, EgressPacket} : PollTick(data)
    \/ UserStop
    \/ Closer
    \/ Signal
    \/ \E c \in PushConsumers : AddPacketConsumer(c)

Spec == Init /\ [][Next]_vars

----------------------------------------------------------------------------
(* Properties of the session (specification Spec).                         *)

\* C2: however many times and from wherever stop() is called (the user,
\* closer(), a consumer callback, the stream's 'close' event, a signal), the
\* cleanup body has run at most once, exactly once as soon as one call has
\* been made, every call has returned the completion of that one run, and
\* the cancellation flag is never cleared once set.
C2_StopOnce ==
    /\ [](/\ obs.cleanupRuns <= 1
          /\ (mgr.cleanupPromise # Null <=> obs.cleanupRuns = 1)
          /\ (obs.cleanupRuns = 1 => mgr.cancelled)
          /\ obs.stopReturns \subseteq {1}
          /\ (obs.userStops > 0 => obs.stopReturns = {1}))
    /\ [][mgr.cancelled => mgr.cancelled']_vars

\* The user has called stop() twice, the stream's 'close' handler has
\* called it too, and a consumer had called it from inside onPacket
C2_Witness ==
    /\ obs.userStops = 2
    /\ sock.closeEmitted /\ sock.closeListener
    /\ \E i \in 1..Len(obs.delivered) : obs.delivered[i][1] = "q"
    /\ obs.cleanupRuns = 1

\* C3: no onPacket callback is called once stop() has been invoked: every
\* callback in the log was called while the cancellation flag was unset
\* (the log records the flag at the moment of each call, so a callback made
\* later in the same chunk as the stop() is seen too).
C3_NoDeliveryAfterStop ==
    \A i \in 1..Len(obs.delivered) : ~obs.delivered[i][3]

\* Consumer "q" called stop() from inside its onPacket for the first
\* datagram of a chunk that also held the whole second datagram, and the
\* data listener stays attached after the stop
C3_Witness ==
    /\ mgr.cancelled
    /\ pos = Len(WireBytes(wire))
    /\ Len(obs.delivered) >= 1
    /\ obs.delivered[Len(obs.delivered)][1] = "q"
    /\ obs.delivered[Len(obs.delivered)][2].protocol = "UDP"

\* C4: no read of the interface by the poller and no write to it by the
\* ingress path is made while the cancellation flag is set.
C4_NoInterfaceIOAfterStop == obs.lateIO = 0

\* After stop(), the timer has fired and stream data has arrived on a
\* manager that holds an open handle, and nothing was read or written
C4_Witness ==
    /\ mgr.cancelled
    /\ mgr.tun # Null /\ tap.isOpen
    /\ obs.ticks > 0
    /\ pos > 0
    /\ obs.tunReads = 0
    /\ obs.ingressWrites = <<>>

\* C8: when setupInterface has rejected, the handle it created is closed
\* (not open, native device closed) and the manager holds no handle; when
\* connectToTunnelLockdown has failed, the manager is moreover stopped and
\* out of the registry, and no forwarding was started (no 'data' or 'close'
\* listener on the stream, no poll timer).
C8_SetupFailureTearsDown ==
    /\ setup.pc = "rejected" =>
           /\ mgr.tun = Null
           /\ tap.created /\ tap.isClosed /\ ~tap.isOpen /\ ~tap.devOpen
    /\ caller = "failed" =>
           /\ mgr.tun = Null
           /\ ~tap.isOpen /\ ~tap.devOpen
           /\ mgr.cancelled
           /\ mgr.cleanupPromise # Null
           /\ proc.activeTunnelManagers = {}
           /\ ~sock.dataListener /\ ~sock.closeListener
           /\ ~proc.timerActive /\ mgr.readInterval = Null

\* connectToTunnelLockdown has failed because setupInterface rejected after
\* the device had been opened
C8_Witness ==
    /\ caller = "failed"
    /\ setup.pc = "rejected"
    /\ tap.created /\ tap.isClosed
    /\ setup.info.mtu >= MinMtu /\ IsIPv6(setup.info.address)

\* C9: once stop() has run, the manager never again holds an interface
\* handle and never again forwards (no handle, no poll timer).
C9_StoppedIsFinal ==
    mgr.cleanupPromise # Null => mgr.tun = Null /\ ~proc.timerActive

----------------------------------------------------------------------------
(* The session under fairness of the event loop: a 'close' event that the  *)
(* socket has scheduled is eventually emitted.                             *)

FairSpec == Init /\ [][Next]_vars /\ WF_vars(SocketClose)

\* The session is Stopped: cancelled, no handle held, the handle closed,
\* no poll timer, out of the registry
Stopped ==
    /\ mgr.cancelled
    /\ mgr.tun = Null
    /\ tap.isClosed /\ ~tap.isOpen /\ ~tap.devOpen
    /\ ~proc.timerActive
    /\ proc.activeTunnelManagers = {}

\* C6: when the peer has closed the stream of a forwarding session (the
\* socket's 'close' is scheduled, the 'close' listener is attached, stop()
\* has not been invoked), the session eventually is Stopped with its handle
\* closed, whatever the caller does or does not do.
C6_PeerCloseStops ==
    (sock.closePending /\ sock.closeListener /\ ~mgr.cancelled /\ mgr.tun # Null)
        ~> Stopped

\* The session returned by connectToTunnelLockdown has forwarded a
\* datagram, the peer closed the stream, and the session is Stopped
\* although neither the user nor a consumer nor a signal called stop()
C6_Witness ==
    /\ caller = "returned"
    /\ Len(obs.ingressWrites) > 0
    /\ sock.closeEmitted
    /\ obs.userStops = 0
    /\ \A i \in 1..Len(obs.delivered) : obs.delivered[i][1] # "q"
    /\ ~proc.exited
    /\ Stopped

----------------------------------------------------------------------------
(* Packet streams: a manager constructed by the user, one packet stream    *)
(* whose reader keeps pulling (for await).                                 *)

StreamInit ==
    /\ InitManager
    /\ caller = "direct"
    /\ wire = SessionWire

StreamSpecNext ==
    \/ \E info \in TunnelInfos, nativeOk \in BOOLEAN :
           UserSetupInterface(info, nativeOk)
    \/ \E outcome \in ExecOutcomes : ExecDone(outcome)
    \/ UserStartForwarding
    \/ \E n \in 1..Len(WireBytes(wire)) : StreamData(CoarseCuts(wire), n)
    \/ PeerClose
    \/ SocketClose
    \/ UserStop
    \/ GetPacketStream
    \/ StreamPull

StreamSpec ==
    StreamInit /\ [][StreamSpecNext]_vars /\ WF_vars(StreamPull) /\ WF_vars(SocketClose)

\* C5: once the forwarder is cancelled, a packet stream that was obtained
\* eventually terminates: its pull completes with done and its private
\* consumer is no longer subscribed.
C5_StreamsTerminate ==
    (mgr.cancelled /\ streams.status # "none")
        ~> (streams.status = "done" /\ ~Contains(mgr.packetConsumers, StreamConsumer))

----------------------------------------------------------------------------
(* A bare TunTap handle driven by its owner: any sequence of open, close,  *)
(* read, write, configure and addRoute, with native open and close that    *)
(* may fail.  ret records every call: the operation, whether it is the     *)
(* call itself or the continuation of an asynchronous call after a         *)
(* command completed, its result, whether it reached the native device or  *)
(* issued an OS command, and whether the handle had been closed before.    *)

HandleInit ==
    /\ InitManager
    /\ caller = "handle"
    /\ wire = <<>>

\* The handle's owner has constructed it
HandleNew ==
    /\ caller = "handle"
    /\ ~tap.created
    /\ tap' = NewTunTap
    /\ UNCHANGED <<mgr, sock, proc, setup, caller, streams, wire, pos, obs, ret, hs, fleet>>

HandleReady == caller = "handle" /\ tap.created

HandleOpen(nativeOk) ==
    /\ HandleReady
    /\ LET r == TunTapOpen(tap, nativeOk)
       IN  /\ tap' = r.tap
           /\ ret' = [op |-> "open", step |-> "call", res |-> r.res,
                      reached |-> r.reached, closedBefore |-> tap.isClosed]
    /\ UNCHANGED <<mgr, sock, proc, setup, caller, streams, wire, pos, obs, hs, fleet>>

HandleClose(nativeOk) ==
    /\ HandleReady
    /\ LET r == TunTapClose(tap, nativeOk)
       IN  /\ tap' = r.tap
           /\ ret' = [op |-> "close", step |-> "call", res |-> r.res,
                      reached |-> r.reached, closedBefore |-> tap.isClosed]
    /\ UNCHANGED <<mgr, sock, proc, setup, caller, streams, wire, pos, obs, hs, fleet>>

HandleRead(maxSize) ==
    /\ HandleReady
    /\ LET r == TunTapRead(tap, maxSize)
       IN  ret' = [op |-> "read", step |-> "call", res |-> r.res,
                   reached |-> r.reached, closedBefore |-> tap.isClosed]
    /\ UNCHANGED <<mgr, tap, sock, proc, setup, caller, streams, wire, pos, obs, hs, fleet>>

HandleWrite(data) ==
    /\ HandleReady
    /\ LET r == TunTapWrite(tap, data)
       IN  ret' = [op |-> "write", step |-> "call", res |-> r.res,
                   reached |-> r.reached, closedBefore |-> tap.isClosed]
    /\ UNCHANGED <<mgr, tap, sock, proc, setup, caller, streams, wire, pos, obs, hs, fleet>>

\* configure(address, mtu) up to its first await; the owner has no other
\* configure or addRoute in flight
HandleConfigure(info) ==
    /\ HandleReady
    /\ setup.pc = "idle"
    /\ LET res == ConfigureCall(tap, info.address, info.mtu)
       IN  /\ ret' = [op |-> "configure", step |-> "call", res |-> res,
                      reached |-> (res = "pending"), closedBefore |-> tap.isClosed]
           /\ setup' = [pc |-> IF res = "pending" THEN "which" ELSE "idle",
                        info |-> info]
    /\ UNCHANGED <<mgr, tap, sock, proc, caller, streams, wire, pos, obs, hs, fleet>>

\* addRoute(destination) up to its await
HandleAddRoute(destination) ==
    /\ HandleReady
    /\ setup.pc = "idle"
    /\ LET res == AddRouteCall(tap, destination)
       IN  /\ ret' = [op |-> "addRoute", step |-> "call", res |-> res,
                      reached |-> (res = "pending"), closedBefore |-> tap.isClosed]
           /\ setup' = [setup EXCEPT !.pc = IF res = "pending" THEN "route" ELSE "idle"]
    /\ UNCHANGED <<mgr, tap, sock, proc, caller, streams, wire, pos, obs, hs, fleet>>

\* The command that configure or addRoute awaits completes: the call issues
\* its next command or settles
HandleExecDone(outcome) ==
    /\ HandleReady
    /\ setup.pc \in {"which", "addr", "link", "route"}
    /\ LET op == IF setup.pc = "route" THEN "addRoute" ELSE "configure"
           next == IF setup.pc = "route" THEN AddRouteStep(outcome)
                   ELSE ConfigureStep(setup.pc, outcome)
           settled == next \in {"resolved", "rejected"}
       IN  /\ ret' = [op |-> op, step |-> "continue",
                      res |-> IF settled THEN next ELSE "pending",
                      reached |-> ~settled, closedBefore |-> tap.isClosed]
           /\ setup' = [setup EXCEPT !.pc = IF settled THEN "idle" ELSE next]
    /\ UNCHANGED <<mgr, tap, sock, proc, caller, streams, wire, pos, obs, hs, fleet>>

\* The addresses configure is called with: literals in every form the
\* pattern names, and texts that are not IPv6 literals
SampleAddresses ==
    {"fd00::2", "", "not-an-ip", "::", "::1", "fd00::", "1:2:3:4:5:6:7:8",
     "1:2:3:4:5:6:7", "1:2:3:4:5:6:7:8:9", "1::2::3", "12345::1",
     "fe80::1%eth0", "fe80::%eth0", "fe80:%eth0", "fe80::::%eth0",
     "::ffff:1.2.3.4", "::ffff:0:1.2.3.4", "fd00::1.2.3.4", "1.2.3.4",
     "fd00::2/64"}

\* The arguments of configure: each sample address with MTU 1500, and the
\* scenario's address with MTUs at and next to the limits
ConfigureInputs ==
    TunnelInfos
      \cup { [ValidTunnelInfo EXCEPT !.address = a] : a \in SampleAddresses }
      \cup { [ValidTunnelInfo EXCEPT !.mtu = m] :
                 m \in {0, MinMtu - 1, MinMtu, MaxMtu, MaxMtu + 1} }

HandleSpecNext ==
    \/ HandleNew
    \/ \E nativeOk \in BOOLEAN : HandleOpen(nativeOk)
    \/ \E nativeOk \in BOOLEAN : HandleClose(nativeOk)
    \/ \E maxSize \in {0, PollReadSize, MaxReadSize + 1} : HandleRead(maxSize)
    \/ \E data \in {<<>>, UdpDatagram, JumboDatagram} : HandleWrite(data)
    \/ \E info \in ConfigureInputs : HandleConfigure(info)
    \/ \E destination \in {"", "fd00::1/128"} : HandleAddRoute(destination)
    \/ \E outcome \in ExecOutcomes : HandleExecDone(outcome)

HandleSpec == HandleInit /\ [][HandleSpecNext]_vars

\* The operations that C7 and C10 name besides open
HandleIO == {"read", "write", "configure", "addRoute"}

\* The handle can be used: open and not closed
Usable == tap.isOpen /\ ~tap.isClosed

\* C7 (amended): closed implies not open; a closed handle stays closed and
\* not open, and open() on it throws 'Device has been closed' without
\* reaching the native device; a read, write, configure or addRoute called
\* on a handle that is not usable throws without reaching the native device
\* or the OS, and a call that reaches them was made on a usable handle (the
\* guard of configure and addRoute is evaluated when they are called: the
\* commands a call issues after its first await are not covered).
C7_HandleGuardsAtCall ==
    /\ [](/\ tap.isClosed => ~tap.isOpen
          /\ (ret.op = "open" /\ ret.closedBefore) =>
                 ret.res = "AlreadyClosed" /\ ~ret.reached
          /\ (ret.op \in HandleIO /\ ret.step = "call" /\ ret.reached) => Usable
          /\ (ret.op \in HandleIO /\ ret.step = "call" /\ ~Usable) =>
                 ret.res \in {"NotOpen", "AlreadyClosed"} /\ ~ret.reached)
    /\ [][tap.isClosed => tap'.isClosed /\ ~tap'.isOpen]_vars

\* C7 (as stated): the flags and calls behave as above, and every time
\* read, write, configure or addRoute reach the native device or issue an
\* OS command (in the call or in a later step of it) the handle is usable.
C7_HandleGuards ==
    /\ C7_HandleGuardsAtCall
    /\ []((ret.op \in HandleIO /\ ret.reached) => Usable)

\* A read called on a handle that had been closed has thrown without
\* reaching the native device
C7_Witness ==
    /\ ret.op = "read" /\ ret.step = "call"
    /\ ret.closedBefore /\ tap.isClosed
    /\ ret.res = "NotOpen" /\ ~ret.reached

\* C10: every operation called on a handle after close() raises
\* AlreadyClosed.
C10_AlreadyClosed ==
    (ret.step = "call" /\ ret.closedBefore /\ ret.op \in HandleIO \cup {"open"}) =>
        ret.res = "AlreadyClosed"

----------------------------------------------------------------------------
(* The ingress demultiplexer: a manager constructed by the user, set up    *)
(* and forwarding, fed every stream of at most MaxDatagrams datagrams in   *)
(* chunks that end at any of the fine cut points.                          *)

RECURSIVE SeqsUpTo(_, _)
SeqsUpTo(S, n) ==
    IF n = 0 THEN {<<>>}
    ELSE LET shorter == SeqsUpTo(S, n - 1)
         IN  shorter \cup { Append(q, x) : q \in shorter, x \in S }

DemuxInit ==
    /\ InitManager
    /\ caller = "direct"
    /\ wire \in SeqsUpTo(DatagramKinds, MaxDatagrams) \ {<<>>}

DemuxSpecNext ==
    \/ \E info \in TunnelInfos, nativeOk \in BOOLEAN :
           UserSetupInterface(info, nativeOk)
    \/ \E outcome \in ExecOutcomes : ExecDone(outcome)
    \/ UserStartForwarding
    \/ AddPacketConsumer("p")
    \/ \E n \in { c - pos : c \in FineCuts(wire) } : StreamData(FineCuts(wire), n)

DemuxSpec == DemuxInit /\ [][DemuxSpecNext]_vars

\* The datagrams of the stream whose last byte has been delivered
Arrived == [k \in 1..Complete(wire, pos) |-> DatagramBytes(wire[k])]

\* The PacketData of the datagrams of a sequence that parse as UDP or TCP
RECURSIVE Events(_)
Events(datagrams) ==
    IF Len(datagrams) = 0 THEN <<>>
    ELSE PacketDataOf(datagrams[1]) \o Events(Tail(datagrams))

IsSuffix(a, b) ==
    Len(a) <= Len(b) /\ a = SubSeq(b, Len(b) - Len(a) + 1, Len(b))

\* What consumer "p", which subscribes at some moment and stays, has been
\* given
Given == [i \in 1..Len(obs.delivered) |-> obs.delivered[i][2]]

----------------------------------------------------------------------------
(* The fanout: a manager constructed by the user, fed three datagrams that *)
(* all parse, with a recording consumer, a throwing consumer and a packet  *)
(* stream that subscribe at any moment.                                    *)

FanoutWire == <<"udp", "tcp", "udp">>

FanoutInit ==
    /\ InitManager
    /\ caller = "direct"
    /\ wire = FanoutWire

FanoutSpecNext ==
    \/ \E info \in TunnelInfos, nativeOk \in BOOLEAN :
           UserSetupInterface(info, nativeOk)
    \/ \E outcome \in ExecOutcomes : ExecDone(outcome)
    \/ UserStartForwarding
    \/ \E n \in 1..Len(WireBytes(wire)) : StreamData(CoarseCuts(wire), n)
    \/ \E c \in {"p", ThrowingConsumer} : AddPacketConsumer(c)
    \/ GetPacketStream
    \/ StreamPull
    \/ UserStop

FanoutSpec == FanoutInit /\ [][FanoutSpecNext]_vars

\* The records consumer c has been called with, in the order of the calls
DeliveredTo(c) ==
    LET mine == SelectSeq(obs.delivered, LAMBDA e : e[1] = c)
    IN  [i \in 1..Len(mine) |-> mine[i][2]]

\* The records of the datagrams parsed since consumer c subscribed
ParsedSince(c) ==
    Events(SubSeq(Arrived, obs.subscribedAt[c] + 1, Len(Arrived)))

Subscribed(c) == Contains(mgr.packetConsumers, c)

\* C11: while the forwarder is not cancelled, every subscriber (push
\* consumer or packet stream) has been given exactly the records of the
\* datagrams parsed since it subscribed, in parse order, so that subscribers
\* present over the same interval have the same sequence; and the records
\* the packet stream has yielded, followed by those it still queues, are
\* the records delivered to it, each once and in order.
C11_OrderedFanout ==
    ~mgr.cancelled =>
        /\ \A c \in AllConsumers : Subscribed(c) => DeliveredTo(c) = ParsedSince(c)
        /\ \A c, d \in AllConsumers :
               (Subscribed(c) /\ Subscribed(d))
                   => (IsSuffix(DeliveredTo(c), DeliveredTo(d))
                          \/ IsSuffix(DeliveredTo(d), DeliveredTo(c)))
        /\ Subscribed(StreamConsumer) =>
               streams.received \o streams.queue = DeliveredTo(StreamConsumer)

\* The three datagrams have been parsed; the recording consumer has the
\* three records, and the packet stream has yielded the first to a waiting
\* pull and queues the two that arrived while its reader lagged
C11_Witness ==
    /\ ~mgr.cancelled
    /\ DeliveredTo("p") = Events(Arrived)
    /\ Len(DeliveredTo("p")) = 3
    /\ streams.received = <<Events(Arrived)[1]>>
    /\ streams.queue = <<Events(Arrived)[2], Events(Arrived)[3]>>

\* C12: while the forwarder is not cancelled, every exception of a consumer
\* has been caught (one per call of the throwing consumer), every consumer
\* subscribed next to the throwing one has still been given every record
\* parsed since it subscribed, and ingress processing has gone on: every
\* datagram that has arrived has been written to the interface and only the
\* incomplete tail of the stream is left in the buffer.
C12_ThrowingConsumerIsolated ==
    (~mgr.cancelled /\ Subscribed(ThrowingConsumer)) =>
        /\ obs.consumerErrors = Len(DeliveredTo(ThrowingConsumer))
        /\ DeliveredTo(ThrowingConsumer) = ParsedSince(ThrowingConsumer)
        /\ \A c \in AllConsumers \ {ThrowingConsumer} :
               Subscribed(c) => DeliveredTo(c) = ParsedSince(c)
        /\ sock.dataListener =>
               /\ obs.ingressWrites = Arrived
               /\ Len(mgr.buffer) = pos - Boundary(wire, Complete(wire, pos))

\* The throwing consumer subscribed before the recording one; it has thrown
\* three times, and the recording consumer has all three records
C12_Witness ==
    /\ ~mgr.cancelled
    /\ mgr.packetConsumers = <<ThrowingConsumer, "p">>
    /\ obs.consumerErrors = 3
    /\ DeliveredTo("p") = Events(Arrived)
    /\ Len(DeliveredTo("p")) = 3

----------------------------------------------------------------------------
(* The L4 parse: a manager constructed by the user, fed one datagram of    *)
(* each kind of L4Kinds (alone or followed by the UDP datagram of the      *)
(* fanout scenario), with a recording consumer.                            *)

L4Init ==
    /\ InitManager
    /\ caller = "direct"
    /\ wire \in { <<k>> : k \in L4Kinds } \cup { <<k, "udp">> : k \in L4Kinds }

L4SpecNext ==
    \/ \E info \in TunnelInfos, nativeOk \in BOOLEAN :
           UserSetupInterface(info, nativeOk)
    \/ \E outcome \in ExecOutcomes : ExecDone(outcome)
    \/ UserStartForwarding
    \/ AddPacketConsumer("p")
    \/ \E n \in { c - pos : c \in CoarseCuts(wire) } : StreamData(CoarseCuts(wire), n)

L4Spec == L4Init /\ [][L4SpecNext]_vars

\* The publication rule in the terms of the claim, on the L4 payload of a
\* datagram: <<[protocol, sourcePort, destPort, payload]>> or <<>>
PublishedFor(datagram) ==
    LET nextHeader == datagram[7]
        payload == SubSeq(datagram, 41, Len(datagram))
        u16(i) == payload[i + 1] * 256 + payload[i + 2]
        rest(k) == SubSeq(payload, k + 1, Len(payload))
    IN  IF nextHeader = 17 /\ Len(payload) >= 8
        THEN <<[protocol |-> "UDP", sourcePort |-> u16(0), destPort |-> u16(2),
                payload |-> rest(8)]>>
        ELSE IF /\ nextHeader = 6
                /\ Len(payload) >= 20
                /\ Len(payload) >= 4 * (payload[13] \div 16)
        THEN <<[protocol |-> "TCP", sourcePort |-> u16(0), destPort |-> u16(2),
                payload |-> rest(4 * (payload[13] \div 16))]>>
        ELSE <<>>

RECURSIVE PublishedForAll(_)
PublishedForAll(datagrams) ==
    IF Len(datagrams) = 0 THEN <<>>
    ELSE PublishedFor(datagrams[1]) \o PublishedForAll(Tail(datagrams))

\* The protocol, ports and payload of the records consumer c was called with
L4Of(c) ==
    [i \in 1..Len(DeliveredTo(c)) |->
        [protocol |-> DeliveredTo(c)[i].protocol,
         sourcePort |-> DeliveredTo(c)[i].sourcePort,
         destPort |-> DeliveredTo(c)[i].destPort,
         payload |-> DeliveredTo(c)[i].payload]]

----------------------------------------------------------------------------
(* The handshake alone: one call of exchangeCoreTunnelParameters on a      *)
(* socket whose peer answers with one of the scripts below, in chunks that *)
(* end at the cut points; the socket may emit 'error' or 'end' at any      *)
(* moment, and the 30 s of the timer elapse at some moment.  In hs,        *)
(* response is the peer's script, object the JSON object it encodes (if    *)
(* any), pos how many bytes of it the socket has delivered in how many     *)
(* chunks, socket and elapsed what the socket and the clock have done.     *)

\* The objects the peer answers with: the empty object, the request echoed,
\* a TunnelInfo, an object of 300 bytes and one of the largest length
HandshakeObjects ==
    {JObj(<<>>), RequestObject, TunnelInfoObject, ObjectOfLength(300),
     ObjectOfLength(MaxFrameLen)}

\* The peer's scripts: the frame of an object, such a frame followed by the
\* first bytes of a datagram, a frame whose magic is 'CDTunneL', a frame
\* whose payload is the first 7 bytes of a JSON text, and silence
PeerScripts ==
    { [object |-> o, bytes |-> Frame(Stringify(o))] : o \in HandshakeObjects }
      \cup { [object |-> TunnelInfoObject,
              bytes |-> Frame(Stringify(TunnelInfoObject)) \o <<96, 0, 0>>],
             [object |-> JUndefined,
              bytes |-> [Frame(Stringify(JObj(<<>>))) EXCEPT ![8] = 76]],
             [object |-> JUndefined,
              bytes |-> Frame(SubSeq(Stringify(RequestObject), 1, 7))],
             [object |-> JUndefined, bytes |-> <<>>] }

\* Where a chunk of the response may end: around the magic and the length
\* field, one byte before and after the end of the frame, and at the end
HsCuts(bytes) ==
    LET frameEnd == IF Len(bytes) >= 10 THEN 10 + ReadUInt16BE(bytes, 8) ELSE 0
    IN  { c \in {1, 5, 8, 9, 10, 11, 12, frameEnd - 1, frameEnd, frameEnd + 1,
                 Len(bytes) - 1, Len(bytes)} : c >= 1 /\ c <= Len(bytes) }

HandshakeInit ==
    /\ InitManager
    /\ caller = "handshake"
    /\ wire = <<>>

\* connectToTunnelLockdown calls exchangeCoreTunnelParameters; the peer
\* will answer with script
HsCall(script) ==
    /\ hs.state = "idle"
    /\ hs' = [ExchangeCall(hs) EXCEPT !.response = script.bytes,
                                      !.object = script.object]
    /\ UNCHANGED <<mgr, tap, sock, proc, setup, caller, streams, wire, pos, obs,
                   ret, fleet>>

\* The socket emits 'data' with the next n bytes of the response
HsData(n) ==
    /\ hs.state # "idle"
    /\ hs.socket = "open"
    /\ n > 0
    /\ hs.pos + n \in HsCuts(hs.response)
    /\ LET data == Slice(hs.response, hs.pos, hs.pos + n)
           h1 == [hs EXCEPT !.pos = @ + n, !.chunks = @ + 1]
       IN  hs' = IF hs.onData THEN HandleData(h1, data) ELSE h1
    /\ UNCHANGED <<mgr, tap, sock, proc, setup, caller, streams, wire, pos, obs,
                   ret, fleet>>

\* The socket emits 'error'
HsSocketError ==
    /\ hs.state # "idle"
    /\ hs.socket = "open"
    /\ LET h1 == [hs EXCEPT !.socket = "errored"]
       IN  hs' = IF hs.onError THEN HandleError(h1) ELSE h1
    /\ UNCHANGED <<mgr, tap, sock, proc, setup, caller, streams, wire, pos, obs,
                   ret, fleet>>

\* The peer ends the stream: the socket emits 'end'
HsSocketEnd ==
    /\ hs.state # "idle"
    /\ hs.socket = "open"
    /\ LET h1 == [hs EXCEPT !.socket = "ended"]
       IN  hs' = IF hs.onEnd THEN HandleEnd(h1) ELSE h1
    /\ UNCHANGED <<mgr, tap, sock, proc, setup, caller, streams, wire, pos, obs,
                   ret, fleet>>

\* 30 s have elapsed since the call: the timer fires unless it was cleared
HsElapse ==
    /\ hs.state # "idle"
    /\ ~hs.elapsed
    /\ LET h1 == [hs EXCEPT !.elapsed = TRUE]
       IN  hs' = IF hs.timer THEN HandleTimeout(h1) ELSE h1
    /\ UNCHANGED <<mgr, tap, sock, proc, setup, caller, streams, wire, pos, obs,
                   ret, fleet>>

HandshakeSpecNext ==
    \/ \E script \in PeerScripts : HsCall(script)
    \/ \E n \in { c - hs.pos : c \in HsCuts(hs.response) } : HsData(n)
    \/ HsSocketError
    \/ HsSocketEnd
    \/ HsElapse

\* Time passes: the 30 s elapse
HandshakeSpec ==
    HandshakeInit /\ [][HandshakeSpecNext]_vars /\ WF_vars(HsElapse)

HsSettled == hs.state \in {"resolved", "rejected"}

\* The first 8 bytes of the peer's response, its length field and the text
\* it frames
HsFrameEnd == 10 + ReadUInt16BE(hs.response, 8)
HsPayload == Slice(hs.response, 10, HsFrameEnd)

\* C14: the request is written as 'CDTunnel', the 2-byte big-endian length
\* N of its JSON text and the text, 10 + N bytes in all, from which the
\* request is read back; and when the peer answers with the frame of a JSON
\* object of N <= 65535 bytes, in any chunking, the call has not been
\* settled by the data before all 10 + N bytes have arrived, it is settled
\* once they have, and if it resolved it resolved with exactly that object
\* (and it did resolve unless the socket failed or ended or the timer fired).
C14_FramingRoundTrip ==
    /\ hs.state # "idle" =>
           LET N == Len(Stringify(RequestObject))
           IN  /\ Len(hs.written) = 10 + N
               /\ SubSeq(hs.written, 1, 8) = Magic
               /\ ReadUInt16BE(hs.written, 8) = N
               /\ JSONParse(SubSeq(hs.written, 11, Len(hs.written))).v = RequestObject
    /\ hs.object # JUndefined =>
           LET N == Len(Stringify(hs.object))
           IN  /\ N <= MaxFrameLen
               /\ Len(Frame(Stringify(hs.object))) = 10 + N
               /\ hs.state = "resolved" => (hs.value = hs.object /\ hs.pos >= 10 + N)
               /\ hs.pos < 10 + N =>
                      hs.reason \notin {"Invalid packet format", "Invalid JSON response"}
               /\ hs.pos >= 10 + N => hs.state # "pending"
               /\ (hs.pos >= 10 + N /\ hs.socket = "open" /\ ~hs.elapsed) =>
                      hs.state = "resolved"

\* The frame of the 300-byte object has arrived in at least four chunks and
\* the call has resolved with that object
C14_Witness ==
    /\ hs.object = ObjectOfLength(300)
    /\ hs.pos = 310
    /\ hs.chunks >= 4
    /\ hs.state = "resolved"
    /\ hs.value = ObjectOfLength(300)

\* What the state of the call, once settled, says about its cause
HsCause ==
    CASE hs.state = "resolved" ->
             /\ hs.pos >= HsFrameEnd
             /\ SubSeq(hs.response, 1, 8) = Magic
             /\ JSONParse(HsPayload).ok /\ hs.value = JSONParse(HsPayload).v
      [] hs.reason = "Invalid packet format" ->
             hs.pos >= 10 /\ SubSeq(hs.response, 1, 8) # Magic
      [] hs.reason = "Invalid JSON response" ->
             /\ hs.pos >= HsFrameEnd
             /\ SubSeq(hs.response, 1, 8) = Magic
             /\ ~JSONParse(HsPayload).ok
      [] hs.reason = "socket error" -> hs.socket = "errored"
      [] hs.reason = "Connection closed before receiving complete response" ->
             hs.socket = "ended"
      [] hs.reason = "Tunnel handshake timeout" -> hs.elapsed
      [] OTHER -> FALSE

----------------------------------------------------------------------------
(* connectToTunnelLockdown with every kind of handshake response: the      *)
(* scenario's TunnelInfo, and TunnelInfos that lack a member or hold a     *)
(* value that is not valid.                                                *)

\* An IPv6 literal (RFC 4291 section 2.2, with an optional zone): eight
\* groups, or at most seven groups and one double colon; the last two
\* groups may be written as a dotted quad
IsIPv6Literal(pieces) ==
    LET n == Len(pieces)
        unzoned == [i \in 1..n |->
                       IF i = n /\ pieces[i] = "h%z" THEN "h"
                       ELSE IF i = n /\ pieces[i] = "%z" THEN ""
                       ELSE pieces[i]]
        empties == { i \in 1..n : unzoned[i] = "" }
        groups == Cardinality({ i \in 1..n : unzoned[i] # "" })
                      + (IF unzoned[n] = "v4" THEN 1 ELSE 0)
    IN  /\ \A i \in 1..n : \/ unzoned[i] = ""
                           \/ IsHexGroup(unzoned[i])
                           \/ i = n /\ unzoned[i] = "v4"
        /\ \/ empties = {} /\ groups = 8
           \/ /\ n >= 3
              /\ groups <= 7
              /\ \/ empties = {1, 2}
                 \/ empties = {n - 1, n}
                 \/ empties = {1, 2, 3}
                 \/ \E i \in 2..(n - 1) : empties = {i}

\* What the claim requires of a handshake response
ValidTunnelParameters(info) ==
    /\ info.hasClientParameters
    /\ IsIPv6Literal(AddressPieces(info.address))
    /\ IsIPv6Literal(AddressPieces(info.serverAddress))
    /\ info.mtu # Absent
    /\ info.mtu >= MinMtu /\ info.mtu <= MaxMtu

\* The handshake responses: the TunnelInfos above, and responses without
\* clientParameters, without address, without mtu, with an mtu above the
\* range, without serverAddress and with a serverAddress that is no address
ResponseInfos ==
    TunnelInfos \cup
    { [ValidTunnelInfo EXCEPT !.hasClientParameters = FALSE,
                              !.address = "undefined", !.mtu = Absent],
      [ValidTunnelInfo EXCEPT !.address = "undefined"],
      [ValidTunnelInfo EXCEPT !.mtu = Absent],
      [ValidTunnelInfo EXCEPT !.mtu = MaxMtu + 1],
      [ValidTunnelInfo EXCEPT !.serverAddress = "undefined"],
      [ValidTunnelInfo EXCEPT !.serverAddress = "not-an-ip"] }

\* The outcomes of the command the setup awaits: the OS does not add a
\* route whose destination is not an IPv6 prefix
OsOutcomes ==
    IF setup.pc = "route" /\ ~IsIPv6Literal(AddressPieces(setup.info.serverAddress))
    THEN {"denied", "error"}
    ELSE ExecOutcomes

ConnectInit ==
    /\ InitManager
    /\ caller = "handshake"
    /\ wire = SessionWire

ConnectSpecNext ==
    \/ \E ok \in BOOLEAN, info \in ResponseInfos, nativeOk \in BOOLEAN :
           HandshakeSettle(ok, info, nativeOk)
    \/ \E outcome \in OsOutcomes : ExecDone(outcome)
    \/ \E n \in 1..Len(WireBytes(wire)) : StreamData(CoarseCuts(wire), n)
    \/ PeerClose
    \/ SocketClose
    \/ Closer

ConnectSpec == ConnectInit /\ [][ConnectSpecNext]_vars

\* C16: connectToTunnelLockdown has resolved, or forwarding has been
\* started, only if the handshake response has clientParameters.address and
\* serverAddress that are IPv6 literals and a clientParameters.mtu within
\* [1280, 65535]; and when it has failed no forwarding has been started.
C16_EstablishedOnlyIfValid ==
    /\ (caller = "returned" \/ sock.dataListener) => ValidTunnelParameters(setup.info)
    /\ caller = "failed" => (~sock.dataListener /\ mgr.tun = Null)

\* C17: configure called on an open handle with an address that is not an
\* IPv6 literal, or with an MTU outside [1280, 65535], has thrown TypeError
\* or RangeError without issuing an OS command, and the handle is still
\* open.
C17_ConfigureValidates ==
    (/\ ret.op = "configure" /\ ret.step = "call"
     /\ ret.res \notin {"NotOpen", "AlreadyClosed"}
     /\ \/ ~IsIPv6Literal(AddressPieces(setup.info.address))
        \/ setup.info.mtu < MinMtu
        \/ setup.info.mtu > MaxMtu)
        => (ret.res \in {"TypeError", "RangeError"} /\ ~ret.reached /\ Usable)

\* C18: once a call of closer() has resolved, the cleanup has run (once)
\* and a graceful end has been issued on the stream socket.
C18_CloserEndsStream ==
    obs.closerReturns > 0 => (obs.cleanupRuns = 1 /\ sock.ended)

----------------------------------------------------------------------------
(* Shutdown: a process with up to MaxManagers managers.  The first is the  *)
(* session's manager (it may be set up and forwarding); the others are     *)
(* constructed and stopped by the user at any moment.                      *)

\* new TunnelManager() for another manager k: it is registered
ConstructManager(k) ==
    /\ Running
    /\ caller = "direct"
    /\ k \notin fleet.constructed
    /\ fleet' = [fleet EXCEPT !.constructed = @ \cup {k}]
    /\ proc' = [setupSignalHandlers(proc)
                   EXCEPT !.activeTunnelManagers = @ \cup {k}]
    /\ UNCHANGED <<mgr, tap, sock, setup, caller, streams, wire, pos, obs, ret, hs>>

\* The user calls stop() on another manager k
StopManager(k) ==
    /\ Running
    /\ k \in fleet.constructed \ fleet.stopped
    /\ fleet' = StopOther(fleet, k)
    /\ proc' = [proc EXCEPT !.activeTunnelManagers = @ \ {k}]
    /\ UNCHANGED <<mgr, tap, sock, setup, caller, streams, wire, pos, obs, ret, hs>>

ShutdownInit ==
    /\ InitManager
    /\ caller = "direct"
    /\ wire = SessionWire

ShutdownSpecNext ==
    \/ \E k \in OtherManagers : ConstructManager(k)
    \/ \E k \in OtherManagers : StopManager(k)
    \/ \E info \in TunnelInfos, nativeOk \in BOOLEAN :
           UserSetupInterface(info, nativeOk)
    \/ \E outcome \in ExecOutcomes : ExecDone(outcome)
    \/ UserStartForwarding
    \/ UserStop
    \/ Signal

ShutdownSpec == ShutdownInit /\ [][ShutdownSpecNext]_vars

\* stop() has completed on manager k
ManagerStopped(k) ==
    IF k = 1 THEN mgr.cleanupPromise # Null /\ obs.cleanupRuns = 1
    ELSE k \in fleet.stopped

\* C20: the registry holds the managers that are constructed and not yet
\* stopped; in the step in which a signal makes the process exit, stop()
\* has completed on every manager that was registered before the step, and
\* the exit code is 0; the process does not exit in any other way.
C20_ShutdownStopsAll ==
    /\ [](/\ proc.activeTunnelManagers =
                 { k \in {1} \cup fleet.constructed : ~ManagerStopped(k) }
          /\ proc.exited <=> fleet.exitCode # NoExit
          /\ proc.exited => fleet.exitCode = 0)
    /\ [][(proc'.exited /\ ~proc.exited)
              => /\ fleet'.exitCode = 0
                 /\ proc'.activeTunnelManagers = {}
                 /\ \A k \in {1} \cup fleet.constructed :
                        (k \in proc.activeTunnelManagers => ManagerStopped(k)')
                            /\ (ManagerStopped(k) => ManagerStopped(k)')]_vars

\* The process has exited with code 0 on a signal that found the session's
\* manager forwarding and one of two other managers still registered; all
\* three are stopped
C20_Witness ==
    /\ proc.exited /\ fleet.exitCode = 0
    /\ fleet.constructed = {2, 3} /\ fleet.stopped = {2, 3}
    /\ sock.dataListener /\ sock.destroyed
    /\ obs.userStops = 0 /\ obs.cleanupRuns = 1
    /\ proc.activeTunnelManagers = {}

----------------------------------------------------------------------------
(* Uncaught exceptions: the process of the shutdown scenario, in which an   *)
(* exception may also reach the process's 'uncaughtException' listener.     *)

ExceptionSpecNext ==
    \/ \E k \in OtherManagers : ConstructManager(k)
    \/ \E k \in OtherManagers : StopManager(k)
    \/ \E info \in TunnelInfos, nativeOk \in BOOLEAN :
           UserSetupInterface(info, nativeOk)
    \/ \E outcome \in ExecOutcomes : ExecDone(outcome)
    \/ UserStartForwarding
    \/ UserStop
    \/ Signal
    \/ UncaughtException

ExceptionSpec == ShutdownInit /\ [][ExceptionSpecNext]_vars

\* C21: when an uncaught exception has ended the process, stop() has
\* completed on every manager that was constructed and the exit code is 1.
C21_UncaughtExitsWithOne ==
    fleet.cause = "uncaughtException"
        => /\ proc.exited
           /\ \A k \in {1} \cup fleet.constructed : ManagerStopped(k)
           /\ fleet.exitCode = 1

----------------------------------------------------------------------------
(* Ownership of payload bytes: the fanout scenario, in which the recording  *)
(* consumer also writes into the payload of a record it has been given.     *)

\* Consumer c writes into the first byte of the payload of a record it has
\* been given (payload[0] = ...), once per record; r is the payload Buffer
\* the record refers to
MutatePayload(c, r) ==
    /\ Running
    /\ \E i \in 1..Len(obs.delivered) :
           obs.delivered[i][1] = c /\ obs.refs[i] = r
    /\ Len(proc.heap[r]) > 0
    /\ <<c, r>> \notin obs.mutated
    /\ proc' = [proc EXCEPT !.heap[r][1] = (@ + 1) % 256]
    /\ obs' = [obs EXCEPT !.mutated = @ \cup {<<c, r>>}]
    /\ UNCHANGED <<mgr, tap, sock, setup, caller, streams, wire, pos, ret, hs,
                   fleet>>

OwnershipSpecNext ==
    \/ \E info \in TunnelInfos, nativeOk \in BOOLEAN :
           UserSetupInterface(info, nativeOk)
    \/ \E outcome \in ExecOutcomes : ExecDone(outcome)
    \/ UserStartForwarding
    \/ \E n \in 1..Len(WireBytes(wire)) : StreamData(CoarseCuts(wire), n)
    \/ \E c \in {"p", ThrowingConsumer} : AddPacketConsumer(c)
    \/ \E r \in 1..Len(proc.heap) : MutatePayload("p", r)

OwnershipSpec == FanoutInit /\ [][OwnershipSpecNext]_vars

\* The payload consumer c observes in the i-th delivery of the log
ObservedPayload(i) == proc.heap[obs.refs[i]]

\* C22: the payload a subscriber observes in a record it was given is the
\* payload that was delivered to it, as long as that subscriber itself has
\* not written into it: writes of other subscribers do not show.
C22_IndependentPayloads ==
    \A i \in 1..Len(obs.delivered) :
        <<obs.delivered[i][1], obs.refs[i]>> \notin obs.mutated
            => ObservedPayload(i) = obs.delivered[i][2].payload

----------------------------------------------------------------------------
(* Platforms: a bare TunTap handle on each supported platform; its owner    *)
(* opens it and calls configure and addRoute, one call at a time, and the   *)
(* commands end in every outcome.                                           *)

PlatformInit ==
    /\ \E platform \in Platforms : InitManagerOn(platform)
    /\ caller = "handle"
    /\ wire = <<>>

\* configure(address, mtu) up to its first await
PlatformConfigure(info) ==
    /\ HandleReady
    /\ setup.pc = "idle"
    /\ LET res == ConfigureCall(tap, info.address, info.mtu)
           first == ConfigureFirst(proc.platform)
       IN  /\ ret' = [op |-> "configure", step |-> "call", res |-> res,
                      reached |-> (res = "pending"), closedBefore |-> tap.isClosed]
           /\ setup' = [pc |-> IF res = "pending" THEN first ELSE "idle",
                        info |-> info]
    /\ UNCHANGED <<mgr, tap, sock, proc, caller, streams, wire, pos, obs, hs, fleet>>

\* addRoute(destination) up to its first await
PlatformAddRoute(destination) ==
    /\ HandleReady
    /\ setup.pc = "idle"
    /\ LET res == AddRouteCall(tap, destination)
           first == AddRouteFirst(proc.platform)
       IN  /\ ret' = [op |-> "addRoute", step |-> "call", res |-> res,
                      reached |-> (res = "pending"), closedBefore |-> tap.isClosed]
           /\ setup' = [setup EXCEPT !.pc = IF res = "pending" THEN first ELSE "idle"]
    /\ UNCHANGED <<mgr, tap, sock, proc, caller, streams, wire, pos, obs, hs, fleet>>

\* The command that configure or addRoute awaits completes with outcome
PlatformExecDone(outcome) ==
    /\ HandleReady
    /\ setup.pc # "idle"
    /\ LET op == IF setup.pc \in {"route", "findRoute"} THEN "addRoute"
                 ELSE "configure"
           next == IF op = "addRoute"
                   THEN PlatformAddRouteStep(proc.platform, setup.pc, outcome)
                   ELSE PlatformConfigureStep(proc.platform, setup.pc, outcome)
           settled == next \in {"resolved", "rejected"}
       IN  /\ ret' = [op |-> op, step |-> "exec",
                      res |-> IF settled THEN next ELSE "pending",
                      reached |-> ~settled, closedBefore |-> tap.isClosed,
                      pc |-> setup.pc, outcome |-> outcome]
           /\ setup' = [setup EXCEPT !.pc = IF settled THEN "idle" ELSE next]
    /\ UNCHANGED <<mgr, tap, sock, proc, caller, streams, wire, pos, obs, hs, fleet>>

PlatformSpecNext ==
    \/ HandleNew
    \/ \E nativeOk \in BOOLEAN : HandleOpen(nativeOk)
    \/ \E info \in TunnelInfos : PlatformConfigure(info)
    \/ \E destination \in {"", "fd00::1/128"} : PlatformAddRoute(destination)
    \/ \E outcome \in PlatformOutcomes : PlatformExecDone(outcome)

PlatformSpec == PlatformInit /\ [][PlatformSpecNext]_vars

\* The words in which the platform's commands report that the address or
\* the route is already there: EEXIST ('File exists') from ip, ifconfig and
\* route, 'already exists' from PowerShell
ReportsExists(platform, outcome) ==
    IF platform = "win32" THEN outcome = "alreadyExists" ELSE outcome = "exists"

\* The commands that add the address or the route
AddingCommands == {"addr", "route"}

\* C23: when the command that adds the address or the route fails with the
\* platform's report that it already exists, configure / addRoute resolve;
\* and when a command's completion makes them reject, the command had
\* failed, or succeeded without naming an adapter, and not with that report.
C23_AlreadyExistsIsSuccess ==
    ret.step = "exec" =>
        /\ (ret.pc \in AddingCommands /\ ReportsExists(proc.platform, ret.outcome))
               => ret.res = "resolved"
        /\ ret.res = "rejected"
               => /\ ret.outcome # "ok"
                  /\ ~(/\ ret.pc \in AddingCommands
                       /\ ReportsExists(proc.platform, ret.outcome))

\* C23 on the platforms other than macOS
C23_AlreadyExistsIsSuccessElsewhere ==
    proc.platform # "darwin" => C23_AlreadyExistsIsSuccess

----------------------------------------------------------------------------
(* Handover: connectToTunnelLockdown on one socket, from the handshake to   *)
(* forwarding.  The peer answers with the frame of a TunnelInfo and goes    *)
(* on with the datagrams of the session; hs.response is all it sends, and   *)
(* hs.pos how much of it the socket has emitted (pos counts the bytes after *)
(* the frame).  The socket flows since the handshake attached its 'data'    *)
(* listener: a chunk it emits goes to the listeners attached at that        *)
(* moment, and to nobody when there is none (the socket may as well hold    *)
(* the bytes back: then the step is not taken).                             *)

HandoverScript ==
    [object |-> TunnelInfoObject,
     bytes |-> Frame(Stringify(TunnelInfoObject)) \o WireBytes(SessionWire)]

\* The length of the response frame
HandoverFrameEnd == Len(Frame(Stringify(TunnelInfoObject)))

\* Where a chunk may end: inside the frame, at its end, 12 bytes into a
\* datagram and at the end of a datagram
HandoverCuts ==
    {HandoverFrameEnd - 1, HandoverFrameEnd}
        \cup { HandoverFrameEnd + c : c \in CoarseCuts(wire) }

HandoverInit ==
    /\ InitManager
    /\ caller = "handshake"
    /\ wire = SessionWire

\* The socket emits 'data' with the next n bytes the peer has sent.  The
\* continuation of a settled handshake runs before the socket's next event.
HandoverData(n) ==
    /\ Running
    /\ hs.state # "idle"
    /\ ~(hs.state = "resolved" /\ caller = "handshake")
    /\ ~sock.destroyed
    /\ n > 0
    /\ hs.pos + n \in HandoverCuts
    /\ LET data == Slice(hs.response, hs.pos, hs.pos + n)
           h1 == [hs EXCEPT !.pos = @ + n, !.chunks = @ + 1]
       IN  /\ hs' = IF hs.onData THEN HandleData(h1, data) ELSE h1
           /\ Commit(IF sock.dataListener THEN DataHandler(World, data)
                     ELSE World)
           /\ pos' = IF hs.pos + n > HandoverFrameEnd THEN hs.pos + n - HandoverFrameEnd
                     ELSE 0
    /\ UNCHANGED <<setup, caller, wire, ret, fleet>>

\* connectToTunnelLockdown continues with the TunnelInfo the handshake has
\* resolved with
HandoverSettle(nativeOk) ==
    /\ hs.state = "resolved"
    /\ hs.value = TunnelInfoObject
    /\ HandshakeSettle(TRUE, ValidTunnelInfo, nativeOk)

HandoverSpecNext ==
    \/ HsCall(HandoverScript)
    \/ \E n \in { c - hs.pos : c \in HandoverCuts } : HandoverData(n)
    \/ \E nativeOk \in BOOLEAN : HandoverSettle(nativeOk)
    \/ \E outcome \in ExecOutcomes : ExecDone(outcome)

HandoverSpec == HandoverInit /\ [][HandoverSpecNext]_vars

\* C24: once forwarding has started (and until the session is stopped),
\* every datagram whose last byte the socket has emitted after the
\* handshake response has been written to the interface, in order, and the
\* demux buffer holds the bytes emitted after the last of them.
C24_NoByteLostAtHandover ==
    (sock.dataListener /\ ~mgr.cancelled) =>
        /\ obs.ingressWrites = Arrived
        /\ mgr.buffer = Slice(WireBytes(wire),
                              Boundary(wire, Complete(wire, pos)), pos)

----------------------------------------------------------------------------
(* Close coupling: the session, in which the caller of setupInterface may   *)
(* also close the interface handle it was returned, and the stream socket   *)
(* may fail.  A socket that fails is destroyed: it emits 'error' and then   *)
(* 'close'.  The event loop is fair to the socket's scheduled 'close' and   *)
(* to the poll timer.                                                       *)

\* The caller closes the handle that setupInterface returned to it
\* (interface.close())
UserCloseInterface ==
    /\ Running
    /\ caller = "direct"
    /\ setup.pc = "resolved"
    /\ ~tap.isClosed
    /\ tap' = TunTapClose(tap, TRUE).tap
    /\ UNCHANGED <<mgr, sock, proc, setup, caller, streams, wire, pos, obs, ret,
                   hs, fleet>>

\* The stream socket of a forwarding session fails: it is destroyed, emits
\* 'error' (to the listener startForwarding attached) and will emit 'close'
SocketError ==
    /\ Running
    /\ sock.closeListener
    /\ ~sock.destroyed
    /\ Commit(ErrorHandler([World EXCEPT
                                !.sock = [SocketDestroy(@) EXCEPT !.errored = TRUE]]))
    /\ UNCHANGED <<setup, caller, wire, pos, ret, hs, fleet>>

CouplingSpecNext ==
    \/ \E ok \in BOOLEAN, info \in TunnelInfos, nativeOk \in BOOLEAN :
           HandshakeSettle(ok, info, nativeOk)
    \/ \E info \in TunnelInfos, nativeOk \in BOOLEAN :
           UserSetupInterface(info, nativeOk)
    \/ \E outcome \in ExecOutcomes : ExecDone(outcome)
    \/ UserStartForwarding
    \/ \E n \in 1..Len(WireBytes(wire)) : StreamData(CoarseCuts(wire), n)
    \/ \E data \in {<<>>, EgressPacket} : PollTick(data)
    \/ UserCloseInterface
    \/ SocketError
    \/ SocketClose
    \/ UserStop

CouplingSpec ==
    /\ Init
    /\ [][CouplingSpecNext]_vars
    /\ WF_vars(SocketClose)
    /\ WF_vars(\E data \in {<<>>, EgressPacket} : PollTick(data))

C26_StreamErrorStops ==
    (sock.errored /\ sock.closeListener /\ ~mgr.cancelled /\ mgr.tun # Null)
        ~> Stopped

\* The session returned by connectToTunnelLockdown has forwarded a
\* datagram, the socket failed, and the session is Stopped although nobody
\* called stop()
C26_Witness ==
    /\ caller = "returned"
    /\ sock.errored /\ sock.closeEmitted
    /\ Len(obs.ingressWrites) = 1
    /\ obs.userStops = 0
    /\ obs.cleanupRuns = 1
    /\ Stopped

----------------------------------------------------------------------------
(* Write failures: a manager constructed by the user, set up and            *)
(* forwarding, fed streams in which datagrams the interface refuses (one    *)
(* byte too long) precede or follow datagrams it accepts; the caller may    *)
(* close the interface handle on the way, after which every write throws.   *)

WriteFailWires == SeqsUpTo(DatagramKinds, MaxDatagrams) \ {<<>>}

WriteFailInit ==
    /\ InitManager
    /\ caller = "direct"
    /\ wire \in WriteFailWires

WriteFailSpecNext ==
    \/ \E info \in TunnelInfos, nativeOk \in BOOLEAN :
           UserSetupInterface(info, nativeOk)
    \/ \E outcome \in ExecOutcomes : ExecDone(outcome)
    \/ UserStartForwarding
    \/ \E n \in { c - pos : c \in CoarseCuts(wire) } : StreamData(CoarseCuts(wire), n)
    \/ UserCloseInterface

WriteFailSpec == WriteFailInit /\ [][WriteFailSpecNext]_vars

\* The arrived datagrams that the interface accepts while its handle is open
Writable == SelectSeq(Arrived, LAMBDA d : Len(d) <= MaxWriteLen)

\* C27: while the session forwards, no failed write has stopped the tunnel;
\* every datagram whose last byte has arrived has been consumed from the
\* buffer and either written or failed, once; the datagrams written are,
\* in order, the arrived ones the interface accepts (those that arrived
\* before the handle was closed, if it was).
C27_WriteFailureSwallowed ==
    sock.dataListener =>
        /\ ~mgr.cancelled /\ obs.cleanupRuns = 0 /\ proc.timerActive
        /\ mgr.buffer = Slice(WireBytes(wire),
                              Boundary(wire, Complete(wire, pos)), pos)
        /\ Len(obs.ingressWrites) + obs.writeErrors = Len(Arrived)
        /\ IF tap.isClosed
           THEN obs.ingressWrites =
                    SubSeq(Writable, 1, Len(obs.ingressWrites))
           ELSE obs.ingressWrites = Writable

\* The write of the first datagram has thrown; the datagram that follows
\* it has been written, and the session still forwards
C27_Witness ==
    /\ wire = <<"jumbo", "udp">>
    /\ pos = Len(WireBytes(wire))
    /\ obs.writeErrors = 1
    /\ obs.ingressWrites = <<UdpDatagram>>
    /\ mgr.buffer = <<>>
    /\ sock.dataListener /\ ~mgr.cancelled /\ ~tap.isClosed

----------------------------------------------------------------------------
(* Egress: a forwarding session whose interface hands the poller nothing,  *)
(* a minimal IPv6 datagram or a packet shorter than an IPv6 header, while   *)
(* the stream may fail or be closed by the peer and the user may stop.      *)

\* A packet "too small for IPv6 header" (tunnel.ts:379)
ShortPacket == <<96, 0, 0, 0>>

EgressReads == {<<>>, EgressPacket, ShortPacket}

EgressSpecNext ==
    \/ \E info \in TunnelInfos, nativeOk \in BOOLEAN :
           UserSetupInterface(info, nativeOk)
    \/ \E outcome \in ExecOutcomes : ExecDone(outcome)
    \/ UserStartForwarding
    \/ \E data \in EgressReads : PollTick(data)
    \/ PeerClose
    \/ SocketError
    \/ SocketClose
    \/ UserStop

EgressInit ==
    /\ InitManager
    /\ caller = "direct"
    /\ wire = <<>>

EgressSpec == EgressInit /\ [][EgressSpecNext]_vars

\* The packets the poller's reads returned while the stream was not destroyed
ReadWhileOpen == SelectSeq(obs.tunPackets, LAMBDA e : ~e.destroyed)

\* C28: the writes to the stream are exactly the non-empty packets the
\* poller's reads returned while the stream was not destroyed, each once, whole
\* and in the order of the reads; every read was made by a session that was
\* not cancelled.
C28_EgressExactlyOnceInOrder ==
    /\ obs.connWrites = [i \in 1..Len(ReadWhileOpen) |-> ReadWhileOpen[i].data]
    /\ Len(obs.tunPackets) <= obs.tunReads
    /\ obs.lateIO = 0

\* Two different packets have been read and written in the order of the reads
C28_Witness ==
    /\ obs.connWrites = <<ShortPacket, EgressPacket>>
    /\ obs.tunReads = 2

\* A read returned nothing and nothing was written for it
C28_WitnessEmptyRead ==
    /\ obs.tunReads = 2
    /\ obs.connWrites = <<EgressPacket>>
    /\ Len(obs.tunPackets) = 1

----------------------------------------------------------------------------
(* Order of establishment: connectToTunnelLockdown from the handshake to   *)
(* the returned connection, with the peer sending datagrams and the timer   *)
(* of the poller firing whenever it is active.                              *)

LockdownSpecNext ==
    \/ \E ok \in BOOLEAN, info \in ResponseInfos, nativeOk \in BOOLEAN :
           HandshakeSettle(ok, info, nativeOk)
    \/ \E outcome \in OsOutcomes : ExecDone(outcome)
    \/ \E n \in 1..Len(WireBytes(wire)) : StreamData(CoarseCuts(wire), n)
    \/ \E data \in {<<>>, EgressPacket} : PollTick(data)
    \/ PeerClose
    \/ SocketClose
    \/ Closer

LockdownSpec == ConnectInit /\ [][LockdownSpecNext]_vars

\* The commands of configure and addRoute that setupInterface awaits
SetupCommands == {"which", "addr", "link", "route"}

\* C29: while the handshake has not completed no interface has been opened;
\* a command of configure or addRoute is pending only on an open interface
\* and before forwarding has started; and forwarding has started, a datagram
\* has been written to the interface or the poller has read only after
\* setupInterface has resolved, that is after the route command completed.
C29_ConfiguredBeforeForwarding ==
    /\ caller = "handshake" =>
           (mgr.tun = Null /\ ~tap.isOpen /\ setup.pc = "idle")
    /\ setup.pc \in SetupCommands =>
           (tap.isOpen /\ mgr.tun # Null /\ ~sock.dataListener)
    /\ (\/ sock.dataListener \/ proc.timerActive
        \/ obs.ingressWrites # <<>> \/ obs.tunReads > 0 \/ obs.connWrites # <<>>)
           => setup.pc = "resolved"

\* The connection has been returned, and datagrams have crossed the
\* interface in both directions
C29_Witness ==
    /\ caller = "returned"
    /\ setup.pc = "resolved"
    /\ obs.ingressWrites # <<>>
    /\ obs.tunReads > 0
    /\ obs.connWrites # <<>>

----------------------------------------------------------------------------
(* Resynchronisation: streams in which bytes that cannot begin an IPv6      *)
(* datagram stand before, between or after the datagrams.                   *)

StrayKinds == {"stray", "strays"}

ResyncKinds == {"udp", "tcp", "jumbo"}

\* q with x inserted after its first i elements
InsertAt(q, i, x) == SubSeq(q, 1, i) \o <<x>> \o SubSeq(q, i + 1, Len(q))

ResyncWires ==
    UNION { { InsertAt(q, i, j) : i \in 0..Len(q), j \in StrayKinds }
            : q \in SeqsUpTo(ResyncKinds, MaxDatagrams) \ {<<>>} }

ResyncCuts(kinds) == FineCuts(kinds) \cap 1..Len(WireBytes(kinds))

ResyncInit ==
    /\ InitManager
    /\ caller = "direct"
    /\ wire \in ResyncWires

ResyncSpecNext ==
    \/ \E info \in TunnelInfos, nativeOk \in BOOLEAN :
           UserSetupInterface(info, nativeOk)
    \/ \E outcome \in ExecOutcomes : ExecDone(outcome)
    \/ UserStartForwarding
    \/ \E n \in { c - pos : c \in ResyncCuts(wire) } :
           StreamData(ResyncCuts(wire), n)

ResyncSpec == ResyncInit /\ [][ResyncSpecNext]_vars

\* The datagrams of the stream, stray bytes left out, whose last byte has
\* been delivered
ArrivedDatagrams == SelectSeq(Arrived, LAMBDA d : Len(d) >= HeaderLen)

\* The stream offset at which the buffer begins
BufferStart == pos - Len(mgr.buffer)

\* The indices of the datagrams (not stray bytes) of the stream
DatagramIndices == { k \in 1..Len(wire) : wire[k] \notin StrayKinds }

\* Only stray bytes and whole datagrams have been dropped from the buffer:
\* it holds the delivered stream from an offset that is not before the end
\* of the last complete datagram and not after the first byte of a datagram
\* that is not complete
OnlyStrayBytesSkipped ==
    /\ mgr.buffer = Slice(WireBytes(wire), BufferStart, pos)
    /\ \A k \in DatagramIndices :
          IF Boundary(wire, k) <= pos
          THEN BufferStart >= Boundary(wire, k)
          ELSE BufferStart <= Boundary(wire, k - 1)

----------------------------------------------------------------------------
(* Release of the device: a session in which every path that closes the    *)
(* interface handle may run, in every order: TunTap.close() by the caller,  *)
(* stop() by the user, by closer() and by the 'close' listener, the catch   *)
(* block of setupInterface, and the cleanup at a signal and at exit.        *)

ReleaseSpecNext ==
    \/ \E ok \in BOOLEAN, info \in TunnelInfos, nativeOk \in BOOLEAN :
           HandshakeSettle(ok, info, nativeOk)
    \/ \E info \in TunnelInfos, nativeOk \in BOOLEAN :
           UserSetupInterface(info, nativeOk)
    \/ \E outcome \in ExecOutcomes : ExecDone(outcome)
    \/ UserStartForwarding
    \/ UserCloseInterface
    \/ PeerClose
    \/ SocketClose
    \/ UserStop
    \/ Closer
    \/ Signal

ReleaseSpec == Init /\ [][ReleaseSpecNext]_vars

\* The native close has never released the device of a handle twice, and
\* never that of a handle that was not opened
ReleasedAtMostOnce ==
    /\ tap.closes <= 1
    /\ tap.closes = 1 => tap.opened
    /\ tap.devOpen <=> (tap.opened /\ tap.closes = 0)

\* C31: the native close has released the device of a handle at most once,
\* and exactly once whenever a call of stop() by the user or by closer()
\* returns on a manager whose handle had been opened.
C31_ClosedExactlyOnce ==
    /\ []ReleasedAtMostOnce
    /\ [][(obs'.userStops = obs.userStops + 1 /\ tap.opened)
              => tap'.closes = 1]_vars

\* The same for a manager whose interface was set up before stop() was
\* first called (setupInterface after stop() is the scenario of C9)
C31_ClosedExactlyOnceInOrder ==
    /\ ReleasedAtMostOnce
    /\ (mgr.cleanupPromise # Null /\ mgr.tun = Null /\ tap.opened)
           => tap.closes = 1

----------------------------------------------------------------------------
(* The retained buffer (specification ResyncSpec).                         *)

\* The largest value header.readUInt16BE(4) can return
MaxPayloadLength == 65535

\* buf begins with a version-6 header whose datagram is not complete in it
BeginsIncompleteDatagram(buf) ==
    /\ Len(buf) >= HeaderLen
    /\ (buf[1] \div 16) % 16 = 6
    /\ Len(buf) < HeaderLen + ReadUInt16BE(buf, 4)

\* C32: on a forwarding session that is not cancelled, after every 'data'
\* event the buffer is shorter than 40 bytes or begins with a version-6
\* header whose datagram is incomplete, and is shorter than 40 + 65535
\* bytes.
C32_RetainedBufferBounded ==
    (sock.dataListener /\ ~mgr.cancelled) =>
        /\ Len(mgr.buffer) < HeaderLen \/ BeginsIncompleteDatagram(mgr.buffer)
        /\ Len(mgr.buffer) < HeaderLen + MaxPayloadLength

\* Stray bytes and a datagram have been consumed, and the buffer holds the
\* header and part of the payload of the datagram that follows
C32_Witness ==
    /\ sock.dataListener /\ ~mgr.cancelled
    /\ wire[1] \in StrayKinds
    /\ obs.ingressWrites # <<>>
    /\ BeginsIncompleteDatagram(mgr.buffer)
    /\ Len(mgr.buffer) > HeaderLen

----------------------------------------------------------------------------
(* The native device used directly: the JavaScript thread calls the public *)
(* methods of a TunDevice one after another (a call is synchronous), and on *)
(* Windows the poller threads run beside it.                                *)

NativeInit ==
    /\ \E platform \in Platforms : InitManagerOn(platform)
    /\ caller = "native"
    /\ wire = <<>>

\* The methods DefineClass exports
PublicMethods(platform) ==
    {"open", "close", "read", "write", "getName", "getFd"}
        \cup (IF platform = "win32" THEN {"startPolling"} ELSE {})

\* The JavaScript thread enters a public method
DeviceCall(op) ==
    /\ Running
    /\ caller = "native"
    /\ proc.device.op = "none"
    /\ op \in PublicMethods(proc.platform)
    /\ op = "startPolling" => FreeThreads(proc.device) # {}
    /\ proc' = [proc EXCEPT !.device = DeviceCallBody(@, proc.platform, op)]
    /\ UNCHANGED <<mgr, tap, sock, setup, caller, streams, wire, pos, obs, ret,
                   hs, fleet>>

\* The method the JavaScript thread is in runs to its return
DeviceReturn(failAt, threadOk, timedOut) ==
    /\ Running
    /\ caller = "native"
    /\ proc.device.op # "none"
    /\ WaitDone(proc.device, timedOut)
    /\ proc' = [proc EXCEPT !.device =
                    DeviceReturnBody(@, proc.platform, failAt, threadOk)]
    /\ UNCHANGED <<mgr, tap, sock, setup, caller, streams, wire, pos, obs, ret,
                   hs, fleet>>

\* A poller thread takes a step
PollerThread(t, signalled, packet) ==
    /\ Running
    /\ caller = "native"
    /\ proc.device.threads[t] \notin {"none", "exited"}
    /\ proc' = [proc EXCEPT !.device = PollerStep(@, t, signalled, packet)]
    /\ UNCHANGED <<mgr, tap, sock, setup, caller, streams, wire, pos, obs, ret,
                   hs, fleet>>

\* The JavaScript thread, in no method, runs a queued callback
DeviceCallback ==
    /\ Running
    /\ caller = "native"
    /\ proc.device.op = "none"
    /\ proc.device.queued
    /\ proc' = [proc EXCEPT !.device = RunCallback(@)]
    /\ UNCHANGED <<mgr, tap, sock, setup, caller, streams, wire, pos, obs, ret,
                   hs, fleet>>

NativeSpecNext ==
    \/ \E op \in PublicMethods("win32") : DeviceCall(op)
    \/ \E failAt \in 0..Len(OpenSteps(proc.platform)),
          threadOk \in BOOLEAN, timedOut \in BOOLEAN :
           DeviceReturn(failAt, threadOk, timedOut)
    \/ \E t \in 1..MaxThreads, signalled \in BOOLEAN, packet \in BOOLEAN :
           PollerThread(t, signalled, packet)
    \/ DeviceCallback

NativeSpec == NativeInit /\ [][NativeSpecNext]_vars

NoOrphans == proc.device.orphans = {}

\* C34: on Windows, no poller thread is still running when StopPolling has
\* finished inside close or startPolling, no poller thread has used a
\* session that was ended or a thread-safe function that was released, and
\* the callback has not run after close returned.
C34_PollerQuiescentAfterClose ==
    /\ NoOrphans
    /\ ~proc.device.staleUse
    /\ ~proc.device.lateCallback

\* While the wait of StopPolling has not timed out: no poller thread has
\* used a session that was ended or a thread-safe function that was released
C34_NoStaleUseWhenJoined ==
    NoOrphans => ~proc.device.staleUse

----------------------------------------------------------------------------
(* The commands of configure (specification PlatformSpec).                 *)

\* The command that brings the link up and sets the MTU: configure issues
\* it last
LinkCommand(platform) == IF platform = "win32" THEN "enable" ELSE "link"

\* C35: when configure resolves, it does so at the completion of the
\* link-up/MTU command, which it issues after the address command; so both
\* have been issued.  (Only the address command is taken to report that the
\* address already exists.)
C35_ConfigureIssuesBoth ==
    (/\ ret.op = "configure" /\ ret.step = "exec" /\ ret.res = "resolved"
     /\ ReportsExists(proc.platform, ret.outcome) => ret.pc \in AddingCommands)
        => ret.pc = LinkCommand(proc.platform)

\* The same when no command reports that the address already exists
C35_ConfigureIssuesBothUnlessExists ==
    (/\ ret.op = "configure" /\ ret.step = "exec" /\ ret.res = "resolved"
     /\ ~ReportsExists(proc.platform, ret.outcome))
        => ret.pc = LinkCommand(proc.platform)

----------------------------------------------------------------------------
(* Routes: a bare TunTap handle on each supported platform; its owner      *)
(* opens and closes it and calls addRoute and removeRoute, one call at a   *)
(* time (specification RouteSpec).  The commands of removeRoute are        *)
(* "unroute" (route -n delete, ip -6 route del, Remove-NetRoute) and, on   *)
(* Windows before it, "findUnroute" (Get-NetAdapter).                      *)

\* "noRoute": the command failed with the platform's report that there is
\* no such route ('not in table', 'No such process', 'No matching',
\* 'not found')
RouteOutcomes == PlatformOutcomes \cup {"noRoute"}

RouteDestinations == {"", "fd00::1/128"}

\* The synchronous part of TunTap.removeRoute
RemoveRouteCall(t, destination) ==
    IF ~t.isOpen THEN "NotOpen" ELSE "pending"

\* The first command removeRoute issues
RemoveRouteFirst(platform) ==
    CASE platform \in {"darwin", "linux"} -> "unroute"
      [] platform = "win32" -> "findUnroute"
      [] OTHER -> "rejected"

\* What removeRoute does when the command it awaits completes
RemoveRouteStep(platform, pc, outcome) ==
    IF outcome = "noRoute" THEN "resolved"
    ELSE IF ~Succeeded(LinuxOutcome(outcome)) THEN "rejected"
    ELSE IF pc = "findUnroute"
    THEN IF outcome = "empty" THEN "rejected" ELSE "unroute"
    ELSE "resolved"

RouteInit ==
    /\ \E platform \in Platforms : InitManagerOn(platform)
    /\ caller = "handle"
    /\ wire = <<>>

\* addRoute(destination) up to its first await
RouteAdd(destination) ==
    /\ HandleReady
    /\ setup.pc = "idle"
    /\ LET res == AddRouteCall(tap, destination)
           first == AddRouteFirst(proc.platform)
       IN  /\ ret' = [op |-> "addRoute", step |-> "call", res |-> res,
                      reached |-> (res = "pending"), closedBefore |-> tap.isClosed,
                      destination |-> destination]
           /\ setup' = [setup EXCEPT !.pc = IF res = "pending" THEN first ELSE "idle"]
    /\ UNCHANGED <<mgr, tap, sock, proc, caller, streams, wire, pos, obs, hs, fleet>>

\* removeRoute(destination) up to its first await
RouteRemove(destination) ==
    /\ HandleReady
    /\ setup.pc = "idle"
    /\ LET res == RemoveRouteCall(tap, destination)
           first == RemoveRouteFirst(proc.platform)
       IN  /\ ret' = [op |-> "removeRoute", step |-> "call", res |-> res,
                      reached |-> (res = "pending"), closedBefore |-> tap.isClosed,
                      destination |-> destination]
           /\ setup' = [setup EXCEPT !.pc = IF res = "pending" THEN first ELSE "idle"]
    /\ UNCHANGED <<mgr, tap, sock, proc, caller, streams, wire, pos, obs, hs, fleet>>

\* The command that addRoute or removeRoute awaits completes with outcome
RouteExecDone(outcome) ==
    /\ HandleReady
    /\ setup.pc # "idle"
    /\ LET op == IF setup.pc \in {"route", "findRoute"} THEN "addRoute"
                 ELSE "removeRoute"
           next == IF op = "addRoute"
                   THEN PlatformAddRouteStep(proc.platform, setup.pc, outcome)
                   ELSE RemoveRouteStep(proc.platform, setup.pc, outcome)
           settled == next \in {"resolved", "rejected"}
       IN  /\ ret' = [op |-> op, step |-> "exec",
                      res |-> IF settled THEN next ELSE "pending",
                      reached |-> ~settled, closedBefore |-> tap.isClosed,
                      pc |-> setup.pc, outcome |-> outcome]
           /\ setup' = [setup EXCEPT !.pc = IF settled THEN "idle" ELSE next]
    /\ UNCHANGED <<mgr, tap, sock, proc, caller, streams, wire, pos, obs, hs, fleet>>

RouteSpecNext ==
    \/ HandleNew
    \/ \E nativeOk \in BOOLEAN : HandleOpen(nativeOk)
    \/ \E nativeOk \in BOOLEAN : HandleClose(nativeOk)
    \/ \E destination \in RouteDestinations : RouteAdd(destination)
    \/ \E destination \in RouteDestinations : RouteRemove(destination)
    \/ \E outcome \in RouteOutcomes : RouteExecDone(outcome)

RouteSpec == RouteInit /\ [][RouteSpecNext]_vars

\* A call of addRoute or removeRoute with the empty route has just returned
EmptyRouteCall(ops) ==
    /\ ret.op \in ops
    /\ ret.step = "call"
    /\ ret.destination = ""

\* C36: a call of addRoute or of removeRoute with an empty route is rejected
\* in its synchronous part, and no command is awaited after it.
C36_EmptyRouteRejected ==
    EmptyRouteCall({"addRoute", "removeRoute"})
        => ret.res # "pending" /\ setup.pc = "idle"

\* The same of addRoute alone, which answers an open handle with TypeError
C36_AddRouteRejectsEmpty ==
    EmptyRouteCall({"addRoute"})
        => /\ ret.res # "pending" /\ setup.pc = "idle"
           /\ (tap.isOpen /\ ~tap.isClosed) => ret.res = "TypeError"

----------------------------------------------------------------------------
(* The process hooks of the tunnel layer (specification ShutdownSpec).     *)

\* C37: for each of SIGINT, SIGTERM, uncaughtException and
\* unhandledRejection the tunnel layer has installed at most one listener,
\* however many managers have been constructed and stopped; and once a
\* manager has been constructed it has installed exactly one.
C37_HooksInstalledOnce ==
    \A e \in ProcessEvents :
        /\ proc.hooks[e] <= 1
        /\ proc.signalHandlersSetup => proc.hooks[e] = 1

\* Every manager has been constructed, and one of the others and the first
\* have been stopped
C37_Witness ==
    /\ fleet.constructed = OtherManagers
    /\ fleet.stopped # {}
    /\ mgr.cleanupPromise # Null
    /\ \A e \in ProcessEvents : proc.hooks[e] = 1

----------------------------------------------------------------------------
(* Opening the device: a TunTap handle over the native device of each       *)
(* platform; every call of the native Open may be the one that fails        *)
(* (specification OpenSpec).                                                *)

\* TunDevice::GetFd / TunDeviceWin::GetFd
GetFd(d, platform) ==
    IF platform = "win32" THEN (IF d.read_event THEN SomeFd ELSE -1)
    ELSE d.fd

\* A public method of the native device, called and run to its return with
\* no poller thread beside it
DeviceMethod(d, platform, op, failAt) ==
    DeviceReturnBody(DeviceCallBody(d, platform, op), platform, failAt, TRUE)

\* TunTap.open() over the native device; failAt is the call of the native
\* Open that fails (0: none)
OpenHandle(failAt) ==
    /\ HandleReady
    /\ LET d == DeviceMethod(proc.device, proc.platform, "open", failAt)
           r == TunTapOpen(tap, d.result = "true")
       IN  /\ tap' = r.tap
           /\ proc' = [proc EXCEPT !.device = IF r.reached THEN d ELSE @]
           /\ ret' = [op |-> "open", step |-> "call", res |-> r.res,
                      reached |-> r.reached, closedBefore |-> tap.isClosed,
                      failAt |-> IF r.reached THEN failAt ELSE 0,
                      before |-> ret.res]
    /\ UNCHANGED <<mgr, sock, setup, caller, streams, wire, pos, obs, hs, fleet>>

\* TunTap.close() over the native device, whose Close does not throw
CloseHandle ==
    /\ HandleReady
    /\ LET d == DeviceMethod(proc.device, proc.platform, "close", 0)
           r == TunTapClose(tap, TRUE)
       IN  /\ tap' = r.tap
           /\ proc' = [proc EXCEPT !.device = IF r.reached THEN d ELSE @]
           /\ ret' = [op |-> "close", step |-> "call", res |-> r.res,
                      reached |-> r.reached, closedBefore |-> tap.isClosed,
                      failAt |-> 0, before |-> ret.res]
    /\ UNCHANGED <<mgr, sock, setup, caller, streams, wire, pos, obs, hs, fleet>>

\* TunTap.read(maxSize) and TunTap.write(data): the answer of the guards
ReadHandle(maxSize) ==
    /\ HandleReady
    /\ LET r == TunTapRead(tap, maxSize)
       IN  ret' = [op |-> "read", step |-> "call", res |-> r.res,
                   reached |-> r.reached, closedBefore |-> tap.isClosed,
                   failAt |-> 0, before |-> ret.res]
    /\ UNCHANGED <<mgr, tap, sock, proc, setup, caller, streams, wire, pos, obs,
                   hs, fleet>>

OpenSpecNext ==
    \/ HandleNew
    \/ \E failAt \in 0..Len(OpenSteps(proc.platform)) : OpenHandle(failAt)
    \/ CloseHandle
    \/ \E maxSize \in {PollReadSize} : ReadHandle(maxSize)

OpenSpec == RouteInit /\ [][OpenSpecNext]_vars

\* The native open has just failed
OpenFailed == ret.op = "open" /\ ret.reached /\ ret.res # "ok"

\* The OS holds nothing for the device
NothingHeld(d) ==
    /\ d.os = [fds |-> 0, adapters |-> 0, sessions |-> 0]
    /\ ~d.adapter /\ ~d.session /\ ~d.read_event

\* C38: when the native open has failed, at whichever call, the OS holds no
\* descriptor, session or adapter of the device; the device is not open and
\* its handle id is -1; the handle is neither open nor closed; and the
\* device is as it was when constructed, but for the result it returned.
C38_FailedOpenReleasesAll ==
    OpenFailed =>
        /\ NothingHeld(proc.device)
        /\ ~proc.device.is_open
        /\ GetFd(proc.device, proc.platform) = -1
        /\ ~tap.isOpen /\ ~tap.isClosed /\ ~tap.devOpen
        /\ proc.device = [NoDevice EXCEPT !.result = "threw"]

\* The open has failed at its last call, when everything had been acquired
C38_Witness ==
    /\ OpenFailed
    /\ ret.failAt = Len(OpenSteps(proc.platform))
    /\ proc.platform = "win32"

\* An open that follows a failed one has succeeded
C38_WitnessReopened ==
    /\ ret.op = "open" /\ ret.res = "ok" /\ ret.reached
    /\ ret.before = "DeviceError"
    /\ tap.isOpen /\ proc.device.is_open

----------------------------------------------------------------------------
(* The utun framing of the Darwin backend: the kernel hands out and takes  *)
(* each packet behind four bytes that name its protocol family              *)
(* (specification DarwinSpec).                                              *)

\* AF_INET6 on macOS
AF_INET6 == 30

\* The longest frame the kernel hands out, and the bytes it is made of
MaxUtunFrame == 5
FrameBytes == {0, AF_INET6}

\* The buffer sizes read is called with
ReadSizes == {1, PollReadSize}

\* What errno holds: a call that fails sets it, a call that does not fail
\* leaves in it what an earlier call had set
Errnos == {"EAGAIN", "EIO"}

\* htonl(n): the four bytes of n, the most significant first
htonl(n) ==
    <<(n \div 16777216) % 256, (n \div 65536) % 256, (n \div 256) % 256, n % 256>>

\* The first n elements of a sequence, or all of it
FirstBytes(s, n) == SubSeq(s, 1, IF n < Len(s) THEN n ELSE Len(s))

\* read(fd, tmp_buffer, buffer_size + 4) when the kernel has frame: what it
\* returns (a datagram longer than the buffer is cut), or that it fails
KernelRead(frame, buffer_size, fails) ==
    IF fails THEN [count |-> -1, bytes |-> <<>>]
    ELSE LET bytes == FirstBytes(frame, buffer_size + 4)
         IN  [count |-> Len(bytes), bytes |-> bytes]

\* A variant of Read that hands out the frame with its four leading bytes:
\* C39 must not hold of it
DarwinReadKeepFamily(k, errno) ==
    IF k.count <= 0
    THEN IF errno = "EAGAIN" THEN [kind |-> "buffer", data |-> <<>>]
         ELSE [kind |-> "error", data |-> <<>>]
    ELSE [kind |-> "buffer", data |-> k.bytes]

\* TunDevice::Read on macOS, after the read has returned k
DarwinRead(k, errno) ==
    IF k.count <= 0
    THEN IF errno = "EAGAIN" THEN [kind |-> "buffer", data |-> <<>>]
         ELSE [kind |-> "error", data |-> <<>>]
    ELSE IF k.count > 4
    THEN [kind |-> "buffer", data |-> SubSeq(k.bytes, 5, k.count)]
    ELSE [kind |-> "buffer", data |-> <<>>]

\* The bytes TunDevice::Write hands to write(fd, tmp_buffer, length + 4)
DarwinFrame(payload) == htonl(AF_INET6) \o payload

\* A variant of Write that returns what the system call returned: C39 must
\* not hold of it
DarwinWriteRawCount(payload, bytes_written) ==
    IF bytes_written < 0 THEN [kind |-> "error", n |-> 0]
    ELSE [kind |-> "number", n |-> bytes_written]

\* TunDevice::Write on macOS, after the write has returned bytes_written
DarwinWrite(payload, bytes_written) ==
    IF bytes_written < 0 THEN [kind |-> "error", n |-> 0]
    ELSE [kind |-> "number",
          n |-> IF bytes_written > 4 THEN bytes_written - 4 ELSE 0]

DarwinInit ==
    /\ InitManagerOn("darwin")
    /\ caller = "darwin"
    /\ wire = <<>>

DarwinReady ==
    caller = "darwin" /\ proc.platform = "darwin" /\ proc.device.op = "none"

\* device.open() with every call of Open succeeding
DarwinOpen ==
    /\ DarwinReady
    /\ proc' = [proc EXCEPT !.device = DeviceMethod(@, "darwin", "open", 0)]
    /\ ret' = [op |-> "open", step |-> "call", res |-> "ok", reached |-> TRUE,
               closedBefore |-> FALSE]
    /\ UNCHANGED <<mgr, tap, sock, setup, caller, streams, wire, pos, obs, hs,
                   fleet>>

\* device.read(buffer_size) when the kernel has frame, or when the read
\* fails; errno holds what the failing read has set, or what was left in it
DarwinReadCall(frame, buffer_size, fails, errno) ==
    /\ DarwinReady
    /\ proc.device.is_open
    /\ LET k == KernelRead(frame, buffer_size, fails)
       IN  ret' = [op |-> "read", step |-> "call", res |-> DarwinRead(k, errno),
                   reached |-> TRUE, closedBefore |-> FALSE,
                   count |-> k.count, bytes |-> k.bytes, errno |-> errno]
    /\ UNCHANGED <<mgr, tap, sock, proc, setup, caller, streams, wire, pos, obs,
                   hs, fleet>>

\* device.write(payload); the system call returns bytes_written.  echo tells
\* that the payload is what the read before has returned
DarwinWriteOf(payload, bytes_written, echo) ==
    /\ DarwinReady
    /\ proc.device.is_open
    /\ bytes_written \in -1..(Len(payload) + 4)
    /\ ret' = [op |-> "write", step |-> "call",
               res |-> DarwinWrite(payload, bytes_written),
               reached |-> TRUE, closedBefore |-> FALSE,
               payload |-> payload, frame |-> DarwinFrame(payload),
               count |-> bytes_written, echo |-> echo,
               read |-> IF echo THEN [count |-> ret.count, bytes |-> ret.bytes]
                        ELSE [count |-> 0, bytes |-> <<>>]]
    /\ UNCHANGED <<mgr, tap, sock, proc, setup, caller, streams, wire, pos, obs,
                   hs, fleet>>

DarwinWriteCall(payload, bytes_written) ==
    DarwinWriteOf(payload, bytes_written, FALSE)

\* const data = tun.read(4096); if (data && data.length > 0)
\* tun.write(data)
DarwinEcho(bytes_written) ==
    /\ ret.op = "read"
    /\ ret.res.kind = "buffer"
    /\ Len(ret.res.data) > 0
    /\ DarwinWriteOf(ret.res.data, bytes_written, TRUE)

DarwinSpecNext ==
    \/ DarwinOpen
    \/ \E frame \in SeqsUpTo(FrameBytes, MaxUtunFrame),
          buffer_size \in ReadSizes, fails \in BOOLEAN, errno \in Errnos :
           DarwinReadCall(frame, buffer_size, fails, errno)
    \/ \E payload \in SeqsUpTo(FrameBytes, 1), bytes_written \in -1..5 :
           DarwinWriteCall(payload, bytes_written)
    \/ \E bytes_written \in -1..(MaxUtunFrame + 4) : DarwinEcho(bytes_written)

DarwinSpec == DarwinInit /\ [][DarwinSpecNext]_vars

\* The kernel has handed out more than the four bytes of the family
ReadSomething == ret.op = "read" /\ ret.count > 4

\* The system call has taken the whole frame
FullyWritten ==
    ret.op = "write" /\ ret.count = Len(ret.payload) + 4

\* What C39 says of read when the kernel has handed out at least one byte,
\* and of write when the kernel has taken at least the four bytes of the
\* family
DarwinFraming ==
    /\ ReadSomething =>
           /\ ret.res.kind = "buffer"
           /\ FirstBytes(ret.bytes, 4) \o ret.res.data = ret.bytes
           /\ Len(ret.res.data) = ret.count - 4
    /\ (ret.op = "read" /\ ret.count \in 1..4) =>
           ret.res = [kind |-> "buffer", data |-> <<>>]
    /\ ret.op = "write" =>
           /\ ret.frame = <<0, 0, 0, AF_INET6>> \o ret.payload
           /\ ret.count >= 4 =>
                  ret.res = [kind |-> "number", n |-> ret.count - 4]
    /\ FullyWritten => ret.res.n = Len(ret.payload)
    /\ (FullyWritten /\ ret.echo) =>
           /\ ret.res.n = ret.read.count - 4
           /\ FirstBytes(ret.read.bytes, 4) = htonl(AF_INET6)
                  => ret.frame = ret.read.bytes

C39_WitnessShortRead ==
    ret.op = "read" /\ ret.count = 4 /\ ret.res.data = <<>>

====
